---- MODULE Spec2Model ----
(***************************************************************************)
(* Invoice classification (src/invoice_classification/classifier.py).      *)
(*                                                                         *)
(* Text is modelled character by character: a text is a sequence of        *)
(* one-character strings, already lowercased (extract_text_ocr and         *)
(* extract_header_text return text.lower()).  Characters outside ASCII     *)
(* are written with a stand-in string: "a~" (a tilde), "e'" (e acute),     *)
(* "o'" (o acute), "a'" (a acute), "c," (c cedilla), "--" (en dash).       *)
(*                                                                         *)
(* Floating-point confidences are kept as integers in units of 1/Unit;     *)
(* Unit is divisible by every keyword count of the registry, so every      *)
(* score and confidence the code computes is an exact integer here.        *)
(*                                                                         *)
(* A local value that is used more than once is bound with                 *)
(*     CHOOSE r \in {F(x) : x \in {e}} : TRUE      (LET x == e IN F(x))     *)
(* or \E x \in {e} : P(x), so that e is evaluated once.                    *)
(***************************************************************************)
EXTENDS Integers, Sequences, FiniteSets, TLC

VARIABLES
    templates,     \* self.templates: the suppliers with a loaded template
    pc,            \* position of the classify call
    image,         \* outcome of pdf_to_image: "unset", "ok" or the exception text
    text,          \* full-page OCR text
    header_text,   \* header-region OCR text
    invoice_date,  \* the local invoice_date of classify
    nif_result,    \* result of classify_by_nif
    template_result, \* result of classify_by_template
    keyword_result,  \* result of classify_by_keywords
    result,        \* value returned by classify
    calls,         \* the collaborators classify has called, in order
    doc,           \* the document (pdf_path) the running classify call is about
    suspended,     \* the locals of a second classify call that is not running now
    seen,          \* per document, the result of the first call that returned
    ncalls,        \* the number of classify calls started
    dry_run,       \* process_and_move's parameter dry_run
    upload,        \* process_and_move's parameter upload
    fs,            \* the file system: per directory, the names of its files
    pdf_files,     \* the list the two globs of process_and_move produced
    stats,         \* the stats dictionary of process_and_move
    action,        \* the local action of the running iteration
    dest_path,     \* the local dest_path of the running iteration
    uploads,       \* the calls of upload_to_api made so far, in order
    request        \* the call of an upload operation and what its environment answers

replay_vars ==
    <<doc, suspended, seen, ncalls>>

batch_vars ==
    <<dry_run, upload, fs, pdf_files, stats, action, dest_path, uploads, request>>

vars ==
    <<templates, pc, image, text, header_text, invoice_date, nif_result,
      template_result, keyword_result, result, calls, replay_vars, batch_vars>>

Unit ==
    30 * 100

Pct(n) ==
    (n * Unit) \div 100

\* the variables of the callers of classify while a single classify call, or a
\* single matcher, is looked at
NoCaller ==
    /\ doc = [none |-> TRUE]
    /\ suspended = [none |-> TRUE]
    /\ seen = [none |-> TRUE]
    /\ ncalls = 0
    /\ dry_run = FALSE
    /\ upload = FALSE
    /\ fs = [none |-> TRUE]
    /\ pdf_files = <<>>
    /\ stats = [none |-> TRUE]
    /\ action = ""
    /\ dest_path = <<>>
    /\ uploads = <<>>
    /\ request = [none |-> TRUE]

None ==
    [none |-> TRUE]

NoText ==
    <<>>

Min(a, b) ==
    IF a <= b THEN a ELSE b

Max(a, b) ==
    IF a >= b THEN a ELSE b

SetMin(S) ==
    CHOOSE x \in S : \A y \in S : x <= y

SetMax(S) ==
    CHOOSE x \in S : \A y \in S : x >= y

(***************************************************************************)
(* Characters and the regular expressions of the source.                   *)
(***************************************************************************)
Digits ==
    {"0", "1", "2", "3", "4", "5", "6", "7", "8", "9"}

Letters ==
    {"a", "b", "c", "d", "e", "f", "g", "h", "i", "j", "k", "l", "m", "n",
     "o", "p", "q", "r", "s", "t", "u", "v", "w", "x", "y", "z",
     "a~", "a'", "e'", "o'", "c,"}

Whitespace ==
    {" ", "\n"}

WordChars ==
    Letters \cup Digits \cup {"_"}

\* A pattern is a sequence of atoms.  An atom is a literal character or one
\* of: "ANY" (.), "ANY*" (.*), "WS*" (\s*), "COLON_WS*" ([:\s]*),
\* "E_ACUTE_OR_E" ([ée]), "A_TILDE_OR_A" ([ãa]), "T_OPT" (t?), "WORDB" (\b).
StarAtoms ==
    {"ANY*", "WS*", "COLON_WS*"}

Accepts(atom, c) ==
    CASE atom \in {"ANY", "ANY*"} -> c # "\n"
      [] atom = "WS*" -> c \in Whitespace
      [] atom = "COLON_WS*" -> c \in Whitespace \cup {":"}
      [] atom = "E_ACUTE_OR_E" -> c \in {"e'", "e"}
      [] atom = "A_TILDE_OR_A" -> c \in {"a~", "a"}
      [] OTHER -> c = atom

\* Number of consecutive characters of t from position i that atom accepts.
RunLen(atom, t, i) ==
    LET stop == CHOOSE k \in i .. (Len(t) + 1) :
                    /\ k = Len(t) + 1 \/ ~Accepts(atom, t[k])
                    /\ \A j \in i .. (k - 1) : Accepts(atom, t[j])
    IN  IF i > Len(t) THEN 0 ELSE stop - i

At(t, i) ==
    IF i >= 1 /\ i <= Len(t) THEN t[i] ELSE ""

IsWordAt(t, i) ==
    i >= 1 /\ i <= Len(t) /\ t[i] \in WordChars

\* The positions a match can stand at after the atom, from the positions S.
StepAtom(atom, t, S) ==
    IF atom \in StarAtoms
    THEN UNION {i .. (i + RunLen(atom, t, i)) : i \in S}
    ELSE IF atom = "T_OPT"
    THEN S \cup {i + 1 : i \in {j \in S : j <= Len(t) /\ t[j] = "t"}}
    ELSE IF atom = "WORDB"
    THEN {i \in S : IsWordAt(t, i - 1) # IsWordAt(t, i)}
    ELSE {i + 1 : i \in {j \in S : j <= Len(t) /\ Accepts(atom, t[j])}}

RECURSIVE RunRe(_, _, _, _)
RunRe(re, k, t, S) ==
    IF k > Len(re) THEN S ELSE RunRe(re, k + 1, t, StepAtom(re[k], t, S))

\* The end positions (index of the next character) of the matches of re
\* that start at position s of t.
MatchEnds(re, t, s) ==
    RunRe(re, 1, t, {s})

\* The positions of each character of t: the searches below start from the
\* positions of a pattern's first character instead of trying every position.
CharIndex(t) ==
    [c \in {t[i] : i \in 1 .. Len(t)} |-> {i \in 1 .. Len(t) : t[i] = c}]

Positions(ix, c) ==
    IF c \in DOMAIN ix THEN ix[c] ELSE {}

SpecialAtoms ==
    StarAtoms \cup {"ANY", "E_ACUTE_OR_E", "A_TILDE_OR_A", "T_OPT", "WORDB"}

\* re.search(re, t) is not None; ix is CharIndex(t)
ReSearch(re, t, ix) ==
    IF re[1] \in SpecialAtoms
    THEN RunRe(re, 1, t, 1 .. (Len(t) + 1)) # {}
    ELSE RunRe(re, 2, t, {i + 1 : i \in Positions(ix, re[1])}) # {}

\* `pattern in text` for plain strings; ix is CharIndex(t)
Contains(t, ix, pattern) ==
    \E i \in Positions(ix, pattern[1]) :
        \A k \in 2 .. Len(pattern) : At(t, i + k - 1) = pattern[k]

(***************************************************************************)
(* The supplier registry, in source order (a dict keeps insertion order).  *)
(***************************************************************************)
SUPPLIERS ==
  <<
    [name |-> "teofilo", nif |-> <<"5", "0", "0", "0", "9", "9", "8", "7", "1">>,
     keywords |-> <<
         <<"t", "e", "o", "f", "i", "l", "o">>,
         <<"f", "o", "n", "t", "a", "i", "n", "h", "a", "s">>,
         <<"m", "e", "s", "s", "i", "n", "e", "s">>,
         <<"8", "3", "7", "5", "-", "1", "2", "7">>,
         <<"t", "e", "o", "f", "i", "l", "o", "ANY", "p", "t">>>>],
    [name |-> "soares", nif |-> <<"5", "0", "1", "4", "9", "6", "9", "1", "2">>,
     keywords |-> <<
         <<"s", "o", "a", "r", "e", "s">>,
         <<"g", "a", "r", "r", "a", "f", "e", "i", "r", "a">>,
         <<"w", "i", "n", "e", "ANY*", "s", "p", "i", "r", "i", "t", "s">>,
         <<"4", "0", "ANY*", "a", "n", "o", "s">>,
         <<"g", "a", "r", "r", "a", "f", "e", "i", "r", "a", "s", "o", "a", "r", "e", "s", "ANY", "p", "t">>>>],
    [name |-> "garcias", nif |-> <<"5", "0", "1", "1", "4", "1", "2", "4", "3">>,
     keywords |-> <<
         <<"g", "a", "r", "c", "i", "a", "s">>,
         <<"w", "i", "n", "e", "s", "ANY*", "s", "p", "i", "r", "i", "t", "s">>,
         <<"a", "l", "g", "o", "z">>,
         <<"8", "3", "6", "5", "-", "0", "8", "5">>,
         <<"g", "a", "r", "c", "i", "a", "s", "ANY", "p", "t">>>>],
    [name |-> "jmv", nif |-> <<"5", "0", "3", "8", "5", "8", "4", "7", "1">>,
     keywords |-> <<
         <<"j", "o", "s", "e", "ANY*", "m", "a", "r", "i", "a", "ANY*", "v", "i", "e", "i", "r", "a">>,
         <<"r", "i", "o", "ANY*", "t", "i", "n", "t", "o">>,
         <<"4", "4", "3", "9", "-", "9", "0", "9">>>>],
    [name |-> "justdrinks", nif |-> <<"5", "0", "8", "9", "7", "6", "4", "6", "4">>,
     keywords |-> <<
         <<"j", "u", "s", "t", "d", "r", "i", "n", "k", "s">>,
         <<"q", "u", "a", "t", "r", "o", "ANY*", "e", "s", "t", "r", "a", "d", "a", "s">>,
         <<"8", "1", "0", "0", "-", "2", "8", "7">>,
         <<"j", "u", "s", "t", "d", "r", "i", "n", "k", "s", "ANY", "p", "t">>>>],
    [name |-> "novadis", nif |-> <<"5", "0", "4", "3", "5", "0", "9", "0", "0">>,
     keywords |-> <<
         <<"n", "o", "v", "a", "d", "i", "s">>,
         <<"a", "l", "f", "a", "r", "r", "o", "b", "e", "i", "r", "a">>,
         <<"v", "i", "l", "a", "ANY*", "f", "r", "a", "n", "c", "a", "ANY*", "x", "i", "r", "a">>,
         <<"c", "e", "n", "t", "r", "a", "l", "c", "e", "r", "v", "e", "j", "a", "s">>>>],
    [name |-> "absolutlyvintage", nif |-> <<"5", "1", "6", "0", "0", "1", "9", "0", "6">>,
     keywords |-> <<
         <<"a", "b", "s", "o", "l", "u", "t", "l", "y", "ANY*", "v", "i", "n", "t", "a", "g", "e">>,
         <<"a", "l", "c", "a", "n", "t", "a", "r", "i", "l", "h", "a">>,
         <<"8", "3", "6", "5", "-", "0", "2", "8">>,
         <<"r", "o", "g", "e", "l">>>>],
    [name |-> "magniberia", nif |-> <<"5", "1", "5", "1", "0", "2", "3", "3", "4">>,
     keywords |-> <<
         <<"m", "a", "g", "n", "i", "b", "e", "r", "i", "a">>,
         <<"v", "e", "n", "k", "o">>,
         <<"t", "a", "v", "i", "r", "a">>,
         <<"8", "8", "0", "0", "-", "3", "1", "8">>,
         <<"m", "a", "g", "n", "i", "b", "e", "r", "i", "a", "ANY", "p", "t">>>>],
    [name |-> "teofilo_gd", nif |-> <<"5", "0", "0", "0", "9", "9", "8", "7", "1">>,
     keywords |-> <<
         <<"g", "u", "i", "a", "ANY*", "d", "e", "v", "o", "l", "u">>,
         <<"p", "r", "o", "d", "u", "t", "o", "ANY*", "r", "e", "c", "l", "a", "m", "a", "d", "o">>,
         <<"p", "r", "o", "d", "u", "t", "o", "ANY*", "d", "e", "v", "o", "l", "v", "i", "d", "o">>>>],
    [name |-> "teofilo_nc", nif |-> <<"5", "0", "0", "0", "9", "9", "8", "7", "1">>,
     keywords |-> <<
         <<"n", "o", "t", "a", "ANY*", "c", "r", "E_ACUTE_OR_E", "d", "i", "t", "o">>,
         <<"c", "WS*", "c", "a", "a", "u">>>>],
    [name |-> "intermarche", nif |-> <<"5", "0", "8", "1", "6", "2", "3", "7", "8">>,
     keywords |-> <<
         <<"i", "n", "t", "e", "r", "m", "a", "r", "c", "h", "e">>,
         <<"s", "o", "d", "i", "q", "u", "a", "r", "t", "e", "i", "r", "a">>,
         <<"v", "i", "l", "a", "m", "o", "u", "r", "a">>,
         <<"s", "u", "p", "e", "r", "m", "e", "r", "c", "a", "d", "o", "s">>>>],
    [name |-> "continente", nif |-> <<"5", "0", "2", "0", "1", "1", "4", "7", "5">>,
     keywords |-> <<
         <<"c", "o", "n", "t", "i", "n", "e", "n", "t", "e">>,
         <<"h", "i", "p", "e", "r", "m", "e", "r", "c", "a", "d", "o", "s">>,
         <<"s", "o", "n", "a", "e">>>>],
    [name |-> "moeve", nif |-> <<"5", "0", "0", "2", "2", "3", "8", "4", "0">>,
     keywords |-> <<
         <<"m", "o", "e", "v", "e">>,
         <<"o", "p", "e", "r", "a", "c", "o", "e", "s", "ANY*", "r", "e", "t", "a", "l", "h", "o">>>>],
    [name |-> "galp", nif |-> <<"5", "0", "0", "6", "9", "7", "3", "7", "0">>,
     keywords |-> <<
         <<"g", "a", "l", "p">>,
         <<"p", "e", "t", "r", "o'", "l", "e", "o", "s">>,
         <<"e", "n", "e", "r", "g", "i", "a">>>>],
    [name |-> "cepsa", nif |-> <<"5", "1", "0", "7", "4", "8", "4", "3", "0">>,
     keywords |-> <<
         <<"c", "e", "p", "s", "a">>,
         <<"v", "i", "l", "a", "c", "o", "m", "b">>,
         <<"c", "o", "m", "b", "u", "s", "t", "i", "v", "e", "i", "s">>>>],
    [name |-> "makro_gas", nif |-> <<"5", "0", "5", "3", "3", "7", "0", "5", "3">>,
     keywords |-> <<
         <<"c", "a", "r", "b", "u", "s", "o", "l">>,
         <<"m", "a", "k", "r", "o", "ANY*", "f", "e", "t", "h", "a">>>>],
    [name |-> "action", nif |-> <<"5", "1", "7", "2", "4", "7", "7", "3", "9">>,
     keywords |-> <<
         <<"a", "c", "t", "i", "o", "n">>,
         <<"s", "t", "o", "r", "e", "o", "p", "s", "ANY*", "p", "o", "r", "t", "u", "g", "a", "l">>>>],
    [name |-> "burgerking", nif |-> <<"5", "0", "4", "6", "6", "1", "2", "6", "4">>,
     keywords |-> <<
         <<"b", "u", "r", "g", "e", "r", "ANY*", "k", "i", "n", "g">>,
         <<"w", "h", "o", "p", "p", "e", "r">>>>],
    [name |-> "mourapao", nif |-> <<"5", "1", "8", "4", "6", "8", "0", "2", "0">>,
     keywords |-> <<
         <<"m", "o", "u", "r", "a", "p", "a", "o">>,
         <<"s", "a", "i", "l", "o", "r", "ANY*", "c", "o", "r", "n", "e", "r">>,
         <<"g", "r", "u", "p", "o", "ANY*", "m", "o", "u", "r", "a", "p", "a", "o">>>>],
    [name |-> "worten", nif |-> <<"5", "0", "3", "6", "3", "0", "3", "3", "0">>,
     keywords |-> <<
         <<"w", "o", "r", "t", "e", "n">>,
         <<"e", "q", "u", "i", "p", "a", "m", "e", "n", "t", "o", "s", "ANY*", "l", "a", "r">>>>],
    [name |-> "wells", nif |-> <<"5", "0", "8", "0", "3", "7", "5", "1", "4">>,
     keywords |-> <<
         <<"w", "e", "l", "l", "s">>,
         <<"p", "h", "a", "r", "m", "a", "c", "o", "n", "t", "i", "n", "e", "n", "t", "e">>>>],
    [name |-> "matchpoint", nif |-> <<"5", "1", "6", "5", "8", "5", "8", "0", "0">>,
     keywords |-> <<
         <<"m", "a", "t", "c", "h", "p", "o", "i", "n", "t">>,
         <<"p", "r", "e", "m", "i", "e", "r", "ANY*", "s", "p", "o", "r", "t", "s">>>>],
    [name |-> "overseas", nif |-> <<"5", "0", "9", "9", "4", "3", "8", "8", "8">>,
     keywords |-> <<
         <<"o", "v", "e", "r", "s", "e", "a", "s">>,
         <<"t", "a", "v", "a", "g", "u", "e", "i", "r", "a">>>>],
    [name |-> "makro", nif |-> <<"5", "0", "2", "0", "3", "0", "7", "1", "2">>,
     keywords |-> <<
         <<"m", "a", "k", "r", "o">>,
         <<"c", "a", "s", "h", "ANY*", "c", "a", "r", "r", "y">>>>],
    [name |-> "pingodoce", nif |-> <<"5", "0", "0", "8", "2", "9", "0", "9", "3">>,
     keywords |-> <<
         <<"p", "i", "n", "g", "o", "ANY*", "d", "o", "c", "e">>,
         <<"d", "i", "s", "t", "r", "i", "b", "u", "i", "c,", "a~", "o", "ANY*", "a", "l", "i", "m", "e", "n", "t", "a", "r">>>>],
    [name |-> "lidl", nif |-> <<"5", "0", "3", "3", "4", "0", "8", "5", "5">>,
     keywords |-> <<
         <<"l", "i", "d", "l">>,
         <<"w", "w", "w", ".", "l", "i", "d", "l", ".", "p", "t">>>>],
    [name |-> "inframoura", nif |-> <<"5", "0", "4", "9", "1", "5", "2", "6", "6">>,
     keywords |-> <<
         <<"i", "n", "f", "r", "a", "m", "o", "u", "r", "a">>,
         <<"a'", "g", "u", "a", "s", "ANY*", "a", "l", "g", "a", "r", "v", "e">>,
         <<"s", "a", "n", "e", "a", "m", "e", "n", "t", "o">>>>],
    [name |-> "constamarina", nif |-> <<"5", "0", "4", "1", "4", "7", "4", "8", "0">>,
     keywords |-> <<
         <<"c", "o", "n", "s", "t", "a", "m", "a", "r", "i", "n", "a">>,
         <<"d", "r", "o", "g", "a", "r", "i", "a", "ANY*", "n", "a", "u", "t", "i", "c", "o", "s">>>>],
    [name |-> "constantino", nif |-> <<"5", "0", "0", "0", "7", "2", "2", "0", "5">>,
     keywords |-> <<
         <<"c", "o", "n", "s", "t", "a", "n", "t", "i", "n", "o">>,
         <<"r", "o", "c", "h", "a", "ANY*", "a", "m", "a", "d", "o", "r">>>>],
    [name |-> "papelnet", nif |-> <<"5", "0", "4", "0", "6", "4", "2", "8", "2">>,
     keywords |-> <<
         <<"p", "a", "p", "e", "l", "n", "e", "t">>,
         <<"p", "a", "p", "e", "l", "a", "r", "i", "a">>>>],
    [name |-> "osakasushi", nif |-> <<"5", "1", "8", "7", "9", "4", "4", "8", "2">>,
     keywords |-> <<
         <<"o", "s", "a", "k", "a">>,
         <<"m", "e", "r", "i", "d", "i", "a", "n", "o", "ANY*", "s", "u", "c", "u", "l", "e", "n", "t", "o">>>>],
    [name |-> "tribulum", nif |-> <<"5", "1", "5", "8", "9", "2", "3", "2", "7">>,
     keywords |-> <<
         <<"t", "r", "i", "b", "u", "l", "u", "m">>,
         <<"a", "l", "l", "ANY*", "o", "v", "e", "r", "ANY*", "m", "o", "u", "n", "t", "a", "i", "n">>>>],
    [name |-> "zorba", nif |-> <<"5", "1", "8", "5", "6", "4", "4", "1", "0">>,
     keywords |-> <<
         <<"z", "o", "r", "b", "a">>,
         <<"m", "e", "a", "d", "o", "w", "s", "ANY*", "h", "e", "a", "v", "e", "n">>>>],
    [name |-> "sinfonia", nif |-> <<"5", "1", "8", "6", "3", "6", "7", "6", "6">>,
     keywords |-> <<
         <<"s", "i", "n", "f", "o", "n", "i", "a">>,
         <<"i", "g", "u", "a", "r", "i", "a", "s">>>>],
    [name |-> "eurolatina", nif |-> <<"5", "0", "2", "7", "8", "1", "1", "0", "6">>,
     keywords |-> <<
         <<"e", "u", "r", "o", "l", "a", "t", "i", "n", "a">>,
         <<"d", "i", "n", "i", "z", "ANY*", "n", "o", "t", "a", "ANY*", "l", "o", "u", "r", "e", "i", "r", "o">>>>],
    [name |-> "brisa", nif |-> <<"5", "1", "4", "1", "6", "6", "0", "9", "6">>,
     keywords |-> <<
         <<"b", "r", "i", "s", "a">>,
         <<"a", "r", "e", "a", "s", "ANY*", "s", "e", "r", "v", "i", "c", "o">>>>],
    [name |-> "ikea", nif |-> <<"5", "0", "5", "4", "1", "6", "6", "5", "4">>,
     keywords |-> <<
         <<"i", "k", "e", "a">>,
         <<"m", "o", "v", "e", "i", "s", "ANY*", "d", "e", "c", "o", "r", "a", "c", "a", "o">>>>],
    [name |-> "leroy", nif |-> <<"5", "0", "6", "8", "4", "8", "5", "5", "6">>,
     keywords |-> <<
         <<"l", "e", "r", "o", "y", "ANY*", "m", "e", "r", "l", "i", "n">>,
         <<"b", "r", "i", "c", "o", "l", "a", "g", "e">>>>],
    [name |-> "staples", nif |-> <<"5", "0", "3", "7", "8", "9", "3", "7", "2">>,
     keywords |-> <<
         <<"s", "t", "a", "p", "l", "e", "s">>,
         <<"e", "q", "u", "i", "p", "a", "m", "e", "n", "t", "o", "ANY*", "e", "s", "c", "r", "i", "t", "o", "r", "i", "o">>>>],
    [name |-> "note", nif |-> <<"5", "1", "7", "3", "0", "9", "5", "0", "5">>,
     keywords |-> <<
         <<"n", "o", "t", "e">>,
         <<"m", "u", "n", "d", "o", "ANY*", "n", "o", "t", "e">>,
         <<"l", "i", "v", "r", "a", "r", "i", "a", "ANY*", "p", "a", "p", "e", "l", "a", "r", "i", "a">>>>],
    [name |-> "partyland", nif |-> <<"5", "0", "9", "1", "9", "9", "4", "2", "9">>,
     keywords |-> <<
         <<"p", "a", "r", "t", "y", "l", "a", "n", "d">>,
         <<"s", "o", "l", "u", "c", "o", "e", "s", "ANY*", "a", "l", "e", "g", "r", "e", "s">>>>],
    [name |-> "alparques", nif |-> <<"5", "1", "4", "9", "1", "6", "4", "9", "4">>,
     keywords |-> <<
         <<"a", "l", "p", "a", "r", "q", "u", "e", "s">>,
         <<"p", "a", "r", "q", "u", "e", "ANY*", "e", "s", "t", "a", "c">>>>],
    [name |-> "pizzahut", nif |-> <<"5", "0", "2", "6", "0", "4", "7", "3", "5">>,
     keywords |-> <<
         <<"p", "i", "z", "z", "a", "ANY*", "h", "u", "t">>,
         <<"i", "b", "e", "r", "u", "s", "a">>>>],
    [name |-> "mcdonalds", nif |-> <<"5", "0", "4", "4", "1", "6", "0", "1", "4">>,
     keywords |-> <<
         <<"m", "c", "d", "o", "n", "a", "l", "d">>,
         <<"m", "a", "g", "i", "c", "ANY*", "e", "m", "p", "r", "e", "e", "n", "d">>>>],
    [name |-> "dominos", nif |-> <<"5", "1", "3", "1", "4", "6", "0", "5", "1">>,
     keywords |-> <<
         <<"d", "o", "m", "i", "n", "o">>,
         <<"d", "a", "u", "f", "o", "o", "d">>>>],
    [name |-> "apaisagem", nif |-> <<"5", "1", "0", "5", "7", "7", "1", "9", "9">>,
     keywords |-> <<
         <<"p", "a", "i", "s", "a", "g", "e", "m">>,
         <<"w", "i", "n", "e", "ANY*", "g", "l", "a", "s", "s">>,
         <<"c", "h", "u", "r", "r", "a", "s", "q", "u", "e", "i", "r", "a">>>>],
    [name |-> "a4tabacaria", nif |-> <<"5", "0", "2", "7", "4", "9", "4", "2", "3">>,
     keywords |-> <<
         <<"a", "4", "ANY*", "t", "a", "b", "a", "c", "a", "r", "i", "a">>,
         <<"t", "a", "b", "a", "c", "a", "r", "i", "a", "s", "ANY*", "l", "d", "a">>>>],
    [name |-> "anticapizzeria", nif |-> <<"5", "1", "7", "9", "7", "3", "6", "3", "4">>,
     keywords |-> <<
         <<"a", "n", "t", "i", "c", "a", "ANY*", "p", "i", "z", "z", "e", "r", "i", "a">>,
         <<"c", "e", "n", "t", "r", "a", "l", "h", "o", "l", "d", "i", "n", "g">>>>],
    [name |-> "italianrepublic", nif |-> <<"5", "0", "3", "2", "5", "4", "4", "3", "5">>,
     keywords |-> <<
         <<"i", "t", "a", "l", "i", "a", "n", "ANY*", "r", "e", "p", "u", "b", "l", "i", "c">>,
         <<"e", "s", "t", "r", "e", "l", "a", "ANY*", "g", "u", "i", "a">>>>],
    [name |-> "reichurrasco", nif |-> <<"5", "1", "5", "5", "5", "3", "5", "6", "5">>,
     keywords |-> <<
         <<"r", "e", "i", "ANY*", "c", "h", "u", "r", "r", "a", "s", "c", "o">>,
         <<"t", "i", "t", "u", "l", "o", "ANY*", "a", "m", "i", "s", "t", "o", "s", "o">>>>],
    [name |-> "solarfarelo", nif |-> <<"5", "0", "4", "0", "5", "5", "2", "2", "4">>,
     keywords |-> <<
         <<"s", "o", "l", "a", "r", "ANY*", "f", "a", "r", "e", "l", "o">>,
         <<"d", "o", "i", "s", "ANY*", "d", "i", "a", "s", "ANY*", "h", "o", "t", "e", "l", "a", "r", "i", "a">>>>],
    [name |-> "botanico", nif |-> <<"5", "1", "6", "8", "2", "3", "9", "6", "1">>,
     keywords |-> <<
         <<"b", "o", "t", "a", "n", "i", "c", "o">>,
         <<"q", "u", "i", "n", "t", "a", "ANY*", "l", "a", "g", "o">>>>],
    [name |-> "adegamonte", nif |-> <<>>,
     keywords |-> <<
         <<"a", "d", "e", "g", "a", "ANY*", "m", "o", "n", "t", "e">>,
         <<"n", "a", "t", "u", "r", "e", "z", "a", "ANY*", "p", "r", "a", "t", "o">>>>],
    [name |-> "afamilia", nif |-> <<"5", "0", "8", "1", "7", "9", "0", "4", "7">>,
     keywords |-> <<
         <<"f", "a", "m", "i", "l", "i", "a">>,
         <<"p", "i", "z", "z", "a", "r", "i", "a", "ANY*", "a", "r", "t", "e", "s", "a", "n", "a", "l", "ANY*", "b", "r", "a", "s", "i", "l", "e", "i", "r", "a">>>>],
    [name |-> "artisan", nif |-> <<"5", "1", "5", "6", "5", "2", "9", "4", "6">>,
     keywords |-> <<
         <<"a", "r", "t", "i", "s", "a", "n">>,
         <<"l", "u", "x", "u", "r", "y", "ANY*", "i", "n", "g", "r", "e", "d", "i", "e", "n", "t">>,
         <<"o", "l", "d", "ANY*", "v", "i", "l", "l", "a", "g", "e">>>>],
    [name |-> "bagga", nif |-> <<"5", "0", "8", "8", "7", "9", "9", "9", "0">>,
     keywords |-> <<
         <<"b", "a", "g", "g", "a">>,
         <<"p", "r", "o", "n", "t", "o", "ANY*", "g", "o", "s", "t", "a", "r">>,
         <<"b", "b", "ANY*", "f", "o", "o", "d">>>>],
    [name |-> "maxidrive", nif |-> <<"5", "1", "5", "8", "6", "5", "6", "7", "2">>,
     keywords |-> <<
         <<"m", "a", "x", "i", "d", "r", "i", "v", "e">>,
         <<"g", "a", "l", "a", "x", "i", "a", "l", "a", "r", "a", "n", "j", "a", "d", "a">>>>],
    [name |-> "padoca", nif |-> <<"0", "0", "0", "0", "0", "0", "0", "0", "0">>,
     keywords |-> <<
         <<"p", "a", "d", "o", "c", "a">>,
         <<"c", "o", "s", "t", "a", "ANY*", "l", "e", "i", "t", "a", "s">>,
         <<"l", "a", "s", "ANY*", "a", "r", "c", "o", "s">>>>],
    [name |-> "gildadasilva", nif |-> <<"2", "1", "9", "3", "2", "9", "9", "7", "6">>,
     keywords |-> <<
         <<"g", "i", "l", "d", "a", "ANY*", "s", "i", "l", "v", "a">>,
         <<"m", "u", "l", "t", "i", "s", "e", "r", "v", "i", "c", "o", "s", "ANY*", "s", "o", "l", "b", "e", "l", "o">>>>],
    [name |-> "robalo", nif |-> <<"5", "0", "0", "6", "5", "4", "5", "7", "3">>,
     keywords |-> <<
         <<"r", "o", "b", "a", "l", "o">>,
         <<"u", "t", "i", "l", "i", "d", "a", "d", "e", "s", "ANY*", "d", "o", "m", "ANY", "s", "t", "i", "c", "a", "s">>,
         <<"h", "o", "t", "e", "l", "e", "i", "r", "a", "s">>,
         <<"r", "o", "b", "a", "l", "o", "-", "s", "a", ".", "c", "o", "m">>>>],
    [name |-> "seminoshopping", nif |-> <<"2", "4", "7", "3", "8", "8", "8", "5", "8">>,
     keywords |-> <<
         <<"s", "e", "m", "i", "n", "o", "ANY*", "s", "h", "o", "p", "p", "i", "n", "g">>,
         <<"c", "h", "e", "n", "ANY*", "s", "h", "u", "a", "n", "g">>>>],
    [name |-> "orientalshopping", nif |-> <<"5", "1", "4", "7", "0", "3", "8", "7", "3">>,
     keywords |-> <<
         <<"o", "r", "i", "e", "n", "t", "a", "l", "ANY*", "s", "h", "o", "p", "p", "i", "n", "g">>,
         <<"o", "r", "i", "e", "n", "t", "a", "l", "e", "f", "e", "i", "t", "o">>>>],
    [name |-> "shoppingloule", nif |-> <<"5", "0", "9", "7", "1", "3", "9", "5", "5">>,
     keywords |-> <<
         <<"s", "h", "o", "p", "p", "i", "n", "g", "ANY*", "l", "o", "u", "l", "e">>,
         <<"l", "e", "i", "a", "ANY*", "c", "r", "e", "i", "a">>>>],
    [name |-> "bp", nif |-> <<"5", "0", "7", "1", "6", "1", "0", "5", "8">>,
     keywords |-> <<
         <<"WORDB", "b", "p", "WORDB">>,
         <<"b", "p", "ANY*", "q", "u", "a", "r", "t", "e", "i", "r", "a">>,
         <<"b", "p", "ANY*", "v", "i", "l", "a", "m", "o", "u", "r", "a">>>>],
    [name |-> "kiabi", nif |-> <<"0", "0", "0", "0", "0", "0", "0", "0", "0">>,
     keywords |-> <<
         <<"k", "i", "a", "b", "i">>,
         <<"f", "i", "d", "e", "l", "i", "d", "a", "d", "e">>>>],
    [name |-> "brisatoll", nif |-> <<"5", "0", "2", "7", "9", "0", "6", "2", "4">>,
     keywords |-> <<
         <<"b", "r", "i", "s", "a", "ANY*", "c", "o", "n", "c", "e", "s", "s", "a", "o">>,
         <<"b", "c", "r">>,
         <<"p", "o", "r", "t", "a", "g", "e", "m">>>>]
  >>

SupplierNames ==
    {SUPPLIERS[i].name : i \in 1 .. Len(SUPPLIERS)}

(***************************************************************************)
(* classify_by_nif                                                         *)
(***************************************************************************)
NIF_CONFIDENCE ==
    Pct(95)

MIN_NIF_LEN ==
    9

\* Tax IDs shared by several document types: variant name and the keyword
\* patterns that select it, in the order they are tried.
SPECIAL_CASES ==
    <<[nif |-> <<"5", "0", "0", "0", "9", "9", "8", "7", "1">>,
       cases |-> <<
         [name |-> "teofilo_gd",
          keywords |-> << <<"g", "u", "i", "a", "ANY*", "d", "e", "v", "o", "l", "u">>,
                          <<"p", "r", "o", "d", "u", "t", "o", "ANY*", "r", "e", "c", "l", "a", "m", "a", "d", "o">>,
                          <<"p", "r", "o", "d", "u", "t", "o", "ANY*", "d", "e", "v", "o", "l", "v", "i", "d", "o">> >>],
         [name |-> "teofilo_nc",
          keywords |-> << <<"n", "o", "t", "a", "ANY*", "c", "r", "E_ACUTE_OR_E", "d", "i", "t", "o">>,
                          <<"c", "WS*", "c", "a", "a", "u">> >>],
         [name |-> "teofilo", keywords |-> << >>] >>]>>

SPECIAL_SKIPPED ==
    {"teofilo_gd", "teofilo_nc"}

\* ' '.join([nif[i:i+3] for i in range(0, len(nif), 3)])
RECURSIVE Spaced(_)
Spaced(nif) ==
    IF Len(nif) <= 3 THEN nif
    ELSE SubSeq(nif, 1, 3) \o <<" ">> \o Spaced(SubSeq(nif, 4, Len(nif)))

nif_patterns(nif) ==
    <<nif, Spaced(nif), <<"p", "t">> \o nif, <<"p", "t", " ">> \o nif>>

NifResult(supplier, details) ==
    [supplier |-> supplier, confidence |-> NIF_CONFIDENCE, method |-> "nif",
     details |-> details, invoice_date |-> <<>>, ocr_text |-> NoText]

\* SpecialLoop as it would be with the keyword-less variant tried first
SpecialLoopFallbackFirst(cases, j, nif, t, ix) ==
    NifResult(cases[Len(cases)].name, [matched_nif |-> nif])

\* The loop over SPECIAL_CASES[nif]: the first variant whose keywords match,
\* or the keyword-less variant when it is reached; None when the loop ends.
RECURSIVE SpecialLoop(_, _, _, _, _)
SpecialLoop(cases, j, nif, t, ix) ==
    IF j > Len(cases) THEN None
    ELSE IF cases[j].keywords # << >>
    THEN IF \E k \in 1 .. Len(cases[j].keywords) : ReSearch(cases[j].keywords[k], t, ix)
         THEN NifResult(cases[j].name, [matched_nif |-> nif, special_type |-> cases[j].name])
         ELSE SpecialLoop(cases, j + 1, nif, t, ix)
    ELSE NifResult(cases[j].name, [matched_nif |-> nif])

SpecialIndex(nif) ==
    {s \in 1 .. Len(SPECIAL_CASES) : SPECIAL_CASES[s].nif = nif}

\* The body of `if pattern.lower() in text:` for one supplier.
NifHit(i, t, ix) ==
    LET profile == SUPPLIERS[i]
    IN  IF SpecialIndex(profile.nif) # {}
        THEN SpecialLoop(SPECIAL_CASES[CHOOSE s \in SpecialIndex(profile.nif) : TRUE].cases,
                         1, profile.nif, t, ix)
        ELSE NifResult(profile.name, [matched_nif |-> profile.nif])

\* The loop over nif_patterns of supplier i, from pattern p on.
RECURSIVE PatternLoop(_, _, _, _, _)
PatternLoop(pats, i, p, t, ix) ==
    IF p > Len(pats) THEN None
    ELSE IF Contains(t, ix, pats[p]) /\ NifHit(i, t, ix) # None THEN NifHit(i, t, ix)
    ELSE PatternLoop(pats, i, p + 1, t, ix)

\* NifSkipped as it would be with <= in the length test
NifSkippedOffByOne(i) ==
    \/ SUPPLIERS[i].name \in SPECIAL_SKIPPED
    \/ SUPPLIERS[i].nif = << >>
    \/ Len(SUPPLIERS[i].nif) <= MIN_NIF_LEN

\* the two `continue` tests at the head of the loop over SUPPLIERS
NifSkipped(i) ==
    \/ SUPPLIERS[i].name \in SPECIAL_SKIPPED
    \/ SUPPLIERS[i].nif = << >>
    \/ Len(SUPPLIERS[i].nif) < MIN_NIF_LEN

\* One iteration of the loop over SUPPLIERS: the result returned, or None.
NifStep(i, t, ix) ==
    IF NifSkipped(i) THEN None
    ELSE CHOOSE r \in {PatternLoop(pats, i, 1, t, ix) :
                          pats \in {nif_patterns(SUPPLIERS[i].nif)}} : TRUE

RECURSIVE NifLoop(_, _, _)
NifLoop(i, t, ix) ==
    IF i > Len(SUPPLIERS) THEN None
    ELSE IF NifStep(i, t, ix) # None THEN NifStep(i, t, ix)
    ELSE NifLoop(i + 1, t, ix)

classify_by_nif(t) ==
    CHOOSE r \in {NifLoop(1, t, ix) : ix \in {CharIndex(t)}} : TRUE

(***************************************************************************)
(* classify_by_keywords                                                    *)
(***************************************************************************)
KEYWORD_THRESHOLD ==
    Pct(30)

KEYWORD_BASE ==
    Pct(50)

KEYWORD_SCALE ==
    Pct(40)

KEYWORD_CAP ==
    Pct(90)

\* matches: the keywords of the profile found in the text, in list order
Matches(i, t, ix) ==
    SelectSeq(SUPPLIERS[i].keywords, LAMBDA kw : ReSearch(kw, t, ix))

\* len(matches) / len(profile.keywords), in units of 1/Unit
Score(m, n) ==
    (m * Unit) \div n

\* min(0.9, 0.5 + best_score * 0.4)
KeywordConfidence(score) ==
    Min(KEYWORD_CAP, KEYWORD_BASE + (score * KEYWORD_SCALE) \div Unit)

\* matches, for every entry of the registry
AllMatches(t, ix) ==
    [i \in 1 .. Len(SUPPLIERS) |-> Matches(i, t, ix)]

\* KeywordLoop as it would be with >= in the comparison of the scores
RECURSIVE KeywordLoopLastWins(_, _, _)
KeywordLoopLastWins(i, ms, best) ==
    IF i > Len(SUPPLIERS) THEN best
    ELSE IF ms[i] # << >> /\ Score(Len(ms[i]), Len(SUPPLIERS[i].keywords)) >= best.score
         THEN KeywordLoopLastWins(i + 1, ms,
                          [match |-> SUPPLIERS[i].name,
                           score |-> Score(Len(ms[i]), Len(SUPPLIERS[i].keywords)),
                           matches |-> ms[i]])
         ELSE KeywordLoopLastWins(i + 1, ms, best)

\* The loop over the registry: best is [match, score, matches].
RECURSIVE KeywordLoop(_, _, _)
KeywordLoop(i, ms, best) ==
    IF i > Len(SUPPLIERS) THEN best
    ELSE IF ms[i] # << >> /\ Score(Len(ms[i]), Len(SUPPLIERS[i].keywords)) > best.score
         THEN KeywordLoop(i + 1, ms,
                          [match |-> SUPPLIERS[i].name,
                           score |-> Score(Len(ms[i]), Len(SUPPLIERS[i].keywords)),
                           matches |-> ms[i]])
         ELSE KeywordLoop(i + 1, ms, best)

\* the statements after the loop
KeywordResult(best) ==
    IF best.match # "" /\ best.score >= KEYWORD_THRESHOLD
    THEN [supplier |-> best.match, confidence |-> KeywordConfidence(best.score),
          method |-> "keywords",
          details |-> [matched_keywords |-> best.matches, score |-> best.score],
          invoice_date |-> <<>>, ocr_text |-> NoText]
    ELSE None

classify_by_keywords(t) ==
    CHOOSE r \in {KeywordResult(best) :
                    best \in {KeywordLoop(1, ms, [match |-> "", score |-> 0, matches |-> << >>]) :
                                 ms \in {AllMatches(t, ix) : ix \in {CharIndex(t)}}}} : TRUE

(***************************************************************************)
(* extract_invoice_date and _normalize_date                                *)
(***************************************************************************)
NoDate ==
    <<>>

UpperCase ==
    <<"A", "B", "C", "D", "E", "F", "G", "H", "I", "J", "K", "L", "M", "N",
      "O", "P", "Q", "R", "S", "T", "U", "V", "W", "X", "Y", "Z">>

LowerCase ==
    <<"a", "b", "c", "d", "e", "f", "g", "h", "i", "j", "k", "l", "m", "n",
      "o", "p", "q", "r", "s", "t", "u", "v", "w", "x", "y", "z">>

\* str.lower()
Lower(t) ==
    [i \in 1 .. Len(t) |->
        IF \E k \in 1 .. Len(UpperCase) : UpperCase[k] = t[i]
        THEN LowerCase[CHOOSE k \in 1 .. Len(UpperCase) : UpperCase[k] = t[i]]
        ELSE t[i]]

DigitChars ==
    <<"0", "1", "2", "3", "4", "5", "6", "7", "8", "9">>

DigitVal(c) ==
    (CHOOSE k \in 1 .. 10 : DigitChars[k] = c) - 1

\* int(s) for a string of digits
RECURSIVE ToInt(_)
ToInt(ds) ==
    IF ds = <<>> THEN 0
    ELSE 10 * ToInt(SubSeq(ds, 1, Len(ds) - 1)) + DigitVal(ds[Len(ds)])

RECURSIVE Decimal(_)
Decimal(n) ==
    IF n < 10 THEN <<DigitChars[n + 1]>>
    ELSE Decimal(n \div 10) \o <<DigitChars[(n % 10) + 1]>>

\* f"{n:0wd}" for n >= 0
RECURSIVE ZeroPad(_, _)
ZeroPad(ds, w) ==
    IF Len(ds) >= w THEN ds ELSE ZeroPad(<<"0">> \o ds, w)

Fmt(n, w) ==
    ZeroPad(Decimal(n), w)

AllDigits(t, s, n) ==
    \A k \in s .. (s + n - 1) : At(t, k) \in Digits

\* (\d{lo,hi}) followed by the separator: the number of digits taken, or 0
GroupBeforeSep(t, s, lo, hi, sep) ==
    LET opts == {n \in lo .. hi : AllDigits(t, s, n) /\ At(t, s + n) = sep}
    IN  IF opts = {} THEN 0 ELSE SetMax(opts)

\* a greedy (\d{lo,hi}) that ends the pattern: the number of digits, or 0
LastGroup(t, s, lo, hi) ==
    LET opts == {n \in lo .. hi : AllDigits(t, s, n)}
    IN  IF opts = {} THEN 0 ELSE SetMax(opts)

DATE_MIN_YEAR ==
    2020

DATE_MAX_YEAR ==
    2030

PT_MONTHS ==
    << <<"j", "a", "n">>, <<"f", "e", "v">>, <<"m", "a", "r">>, <<"a", "b", "r">>,
       <<"m", "a", "i">>, <<"j", "u", "n">>, <<"j", "u", "l">>, <<"a", "g", "o">>,
       <<"s", "e", "t">>, <<"o", "u", "t">>, <<"n", "o", "v">>, <<"d", "e", "z">> >>

Dashes ==
    {"-", "--"}

\* date_patterns, in list order: the separator and the format of each.
date_patterns ==
    <<[kind |-> "pt_month", sep |-> "-", format |-> "pt_month"],
      [kind |-> "num", sep |-> "-", format |-> "ymd"],
      [kind |-> "num", sep |-> "/", format |-> "ymd"],
      [kind |-> "num", sep |-> "/", format |-> "ambiguous"],
      [kind |-> "num", sep |-> "-", format |-> "dmy"],
      [kind |-> "num", sep |-> ".", format |-> "dmy"]>>

Match(s, e, g1, g2, g3) ==
    [start |-> s, end |-> e, groups |-> <<g1, g2, g3>>]

\* (\d{1,2})\s*[-–]\s*(jan|...|dez)\s*[-–]?\s*(\d{2,4}) matched at position s
PtMonthAt(t, s) ==
    LET n1 == LastGroup(t, s, 1, 2)
        a == s + n1
        b == a + RunLen("WS*", t, a)
        c == b + 1 + RunLen("WS*", t, b + 1)
        mon == SubSeq(t, c, Min(c + 2, Len(t)))
        d == c + 3 + RunLen("WS*", t, c + 3)
        e == IF At(t, d) \in Dashes THEN d + 1 + RunLen("WS*", t, d + 1) ELSE d
        n3 == LastGroup(t, e, 2, 4)
    IN  IF /\ n1 > 0
           /\ At(t, b) \in Dashes
           /\ \E k \in 1 .. Len(PT_MONTHS) : PT_MONTHS[k] = mon
           /\ n3 > 0
        THEN Match(s, e + n3, SubSeq(t, s, a - 1), mon, SubSeq(t, e, e + n3 - 1))
        ELSE None

\* (\d{4})sep(\d{1,2})sep(\d{1,2}) matched at position s
YmdAt(t, s, sep) ==
    LET n1 == GroupBeforeSep(t, s, 4, 4, sep)
        a == s + n1 + 1
        n2 == GroupBeforeSep(t, a, 1, 2, sep)
        b == a + n2 + 1
        n3 == LastGroup(t, b, 1, 2)
    IN  IF n1 > 0 /\ n2 > 0 /\ n3 > 0
        THEN Match(s, b + n3, SubSeq(t, s, s + n1 - 1), SubSeq(t, a, a + n2 - 1),
                   SubSeq(t, b, b + n3 - 1))
        ELSE None

\* (\d{1,2})sep(\d{1,2})sep(\d{4}) matched at position s
DmyAt(t, s, sep) ==
    LET n1 == GroupBeforeSep(t, s, 1, 2, sep)
        a == s + n1 + 1
        n2 == GroupBeforeSep(t, a, 1, 2, sep)
        b == a + n2 + 1
        n3 == LastGroup(t, b, 4, 4)
    IN  IF n1 > 0 /\ n2 > 0 /\ n3 > 0
        THEN Match(s, b + n3, SubSeq(t, s, s + n1 - 1), SubSeq(t, a, a + n2 - 1),
                   SubSeq(t, b, b + n3 - 1))
        ELSE None

\* the match of date_patterns[g] that starts at position s, or None
PatternAt(g, t, s) ==
    LET p == date_patterns[g]
    IN  IF At(t, s) \notin Digits THEN None
        ELSE IF p.kind = "pt_month" THEN PtMonthAt(t, s)
        ELSE IF p.format = "ymd" THEN YmdAt(t, s, p.sep)
        ELSE DmyAt(t, s, p.sep)

MatchStarts(g, t) ==
    {s \in 1 .. Len(t) : PatternAt(g, t, s) # None}

\* re.search(pattern, t): the leftmost match, or None
DateSearch(g, t) ==
    CHOOSE m \in {IF starts = {} THEN None ELSE PatternAt(g, t, SetMin(starts)) :
                    starts \in {MatchStarts(g, t)}} : TRUE

\* re.finditer(pattern, t): the matches from left to right, each search
\* resuming where the previous match ended; starts is MatchStarts(g, t)
RECURSIVE IterFrom(_, _, _, _)
IterFrom(g, t, starts, pos) ==
    IF {s \in starts : s >= pos} = {} THEN <<>>
    ELSE CHOOSE ms \in {<<m>> \o IterFrom(g, t, starts, m.end) :
                          m \in {PatternAt(g, t, SetMin({s \in starts : s >= pos}))}} : TRUE

DateFindIter(g, t) ==
    CHOOSE ms \in {IterFrom(g, t, starts, 1) : starts \in {MatchStarts(g, t)}} : TRUE

DAYS_IN_MONTH ==
    <<31, 29, 31, 30, 31, 30, 31, 31, 30, 31, 30, 31>>

\* Valid as it would be without the days-in-month test
ValidUpTo31(year, month, day) ==
    /\ DATE_MIN_YEAR <= year /\ year <= DATE_MAX_YEAR
    /\ 1 <= month /\ month <= 12
    /\ 1 <= day /\ day <= 31

\* "Basic validation" and "Additional validation" of _normalize_date
Valid(year, month, day) ==
    /\ DATE_MIN_YEAR <= year /\ year <= DATE_MAX_YEAR
    /\ 1 <= month /\ month <= 12
    /\ 1 <= day /\ day <= 31
    /\ day <= DAYS_IN_MONTH[month]

Formatted(year, month, day) ==
    IF Valid(year, month, day)
    THEN Fmt(year, 4) \o Fmt(month, 2) \o Fmt(day, 2)
    ELSE NoDate

PtMonthNumber(abbr) ==
    CHOOSE k \in 1 .. Len(PT_MONTHS) : PT_MONTHS[k] = abbr

\* _normalize_date as it would be if a slash date with both numbers up to 12
\* were read month-first
NormalizeMonthFirst(m, format) ==
    LET g == m.groups
    IN  CASE format = "pt_month" ->
               LET year == ToInt(g[3])
               IN  Formatted(IF year < 100 THEN 2000 + year ELSE year,
                             PtMonthNumber(g[2]), ToInt(g[1]))
          [] format = "ymd" -> Formatted(ToInt(g[1]), ToInt(g[2]), ToInt(g[3]))
          [] format = "dmy" -> Formatted(ToInt(g[3]), ToInt(g[2]), ToInt(g[1]))
          [] format = "ambiguous" ->
               LET first == ToInt(g[1])
                   second == ToInt(g[2])
               IN  IF first > 12 /\ second <= 12
                   THEN Formatted(ToInt(g[3]), second, first)
                   ELSE Formatted(ToInt(g[3]), first, second)
          [] OTHER -> NoDate

_normalize_date(m, format) ==
    LET g == m.groups
    IN  CASE format = "pt_month" ->
               LET year == ToInt(g[3])
               IN  Formatted(IF year < 100 THEN 2000 + year ELSE year,
                             PtMonthNumber(g[2]), ToInt(g[1]))
          [] format = "ymd" -> Formatted(ToInt(g[1]), ToInt(g[2]), ToInt(g[3]))
          [] format = "dmy" -> Formatted(ToInt(g[3]), ToInt(g[2]), ToInt(g[1]))
          [] format = "ambiguous" ->
               LET first == ToInt(g[1])
                   second == ToInt(g[2])
               IN  IF first > 12 /\ second <= 12
                   THEN Formatted(ToInt(g[3]), second, first)
                   ELSE IF second > 12 /\ first <= 12
                   THEN Formatted(ToInt(g[3]), first, second)
                   ELSE Formatted(ToInt(g[3]), second, first)
          [] OTHER -> NoDate

\* Issue-date labels in priority order.  Each label is the list of the
\* branches of its optional groups: (?:de\s*)?, (?:do\s*)?, (?:da\s*)? and
\* (?:em|a)? taken or not; "T_OPT" is the t? of fact?ura.
priority_keywords ==
    << << <<"d", "a", "t", "a", "WS*", "d", "e", "WS*", "e", "m", "i", "s", "s", "A_TILDE_OR_A", "o", "WS*", "COLON_WS*">>,
          <<"d", "a", "t", "a", "WS*", "e", "m", "i", "s", "s", "A_TILDE_OR_A", "o", "WS*", "COLON_WS*">> >>,
       << <<"d", "a", "t", "a", "WS*", "d", "o", "WS*", "d", "o", "c", "u", "m", "e", "n", "t", "o", "WS*", "COLON_WS*">>,
          <<"d", "a", "t", "a", "WS*", "d", "o", "c", "u", "m", "e", "n", "t", "o", "WS*", "COLON_WS*">> >>,
       << <<"d", "a", "t", "a", "WS*", "d", "a", "WS*", "f", "a", "c", "T_OPT", "u", "r", "a", "WS*", "COLON_WS*">>,
          <<"d", "a", "t", "a", "WS*", "f", "a", "c", "T_OPT", "u", "r", "a", "WS*", "COLON_WS*">> >>,
       << <<"e", "m", "i", "t", "i", "d", "o", "WS*", "e", "m", "WS*", "COLON_WS*">>,
          <<"e", "m", "i", "t", "i", "d", "o", "WS*", "a", "WS*", "COLON_WS*">>,
          <<"e", "m", "i", "t", "i", "d", "o", "WS*", "COLON_WS*">> >> >>

avoid_keywords ==
    << <<"v", "e", "n", "c", "i", "m", "e", "n", "t", "o">>,
       <<"p", "a", "g", "a", "m", "e", "n", "t", "o">>,
       <<"p", "r", "a", "z", "o">> >>

PRIORITY_WINDOW ==
    30

AVOID_CONTEXT ==
    50

\* the end positions of the matches of a label that start at position s
LabelEndsAt(label, t, s) ==
    UNION {MatchEnds(label[a], t, s) : a \in 1 .. Len(label)}

\* keyword_match.end() of re.search(label, t), as the position of the next
\* character; 0 when the label does not occur
LabelEnd(label, t) ==
    CHOOSE e \in {IF starts = {} THEN 0 ELSE SetMax(LabelEndsAt(label, t, SetMin(starts))) :
                    starts \in {{s \in 1 .. Len(t) :
                                    /\ t[s] \in {label[a][1] : a \in 1 .. Len(label)}
                                    /\ LabelEndsAt(label, t, s) # {}}}} : TRUE

\* the inner loop of the first pass: the first pattern, from g on, whose
\* first match in the search area normalizes to a date
RECURSIVE WindowLoop(_, _)
WindowLoop(g, area) ==
    IF g > Len(date_patterns) THEN NoDate
    ELSE CHOOSE d \in {IF m # None /\ _normalize_date(m, date_patterns[g].format) # NoDate
                        THEN _normalize_date(m, date_patterns[g].format)
                        ELSE WindowLoop(g + 1, area) :
                        m \in {DateSearch(g, area)}} : TRUE

\* search_area = text_lower[keyword_match.end():keyword_match.end()+30]
SearchArea(t, e) ==
    SubSeq(t, e, Min(e + PRIORITY_WINDOW - 1, Len(t)))

\* the date found after one priority keyword, or NoDate
LabelDate(label, t) ==
    CHOOSE d \in {IF e = 0 THEN NoDate
                  ELSE CHOOSE w \in {WindowLoop(1, area) : area \in {SearchArea(t, e)}} : TRUE :
                  e \in {LabelEnd(label, t)}} : TRUE

\* the first pass as it would be with the labels tried from the last of the
\* list to the first
RECURSIVE PriorityPassBackwards(_, _)
PriorityPassBackwards(k, t) ==
    IF k > Len(priority_keywords) THEN NoDate
    ELSE CHOOSE d \in {IF date # NoDate THEN date ELSE PriorityPassBackwards(k + 1, t) :
                        date \in {LabelDate(priority_keywords[Len(priority_keywords) + 1 - k], t)}} : TRUE

\* First pass: dates near priority keywords
RECURSIVE PriorityPass(_, _)
PriorityPass(k, t) ==
    IF k > Len(priority_keywords) THEN NoDate
    ELSE CHOOSE d \in {IF date # NoDate THEN date ELSE PriorityPass(k + 1, t) :
                        date \in {LabelDate(priority_keywords[k], t)}} : TRUE

\* is_due_date as it would be if the avoid keywords were not consulted
IsDueDateNever(t, m) ==
    FALSE

\* context = text_lower[max(0, match.start() - 50):match.start()] holds an
\* avoid keyword
is_due_date(t, m) ==
    \E context \in {SubSeq(t, Max(1, m.start - AVOID_CONTEXT), m.start - 1)} :
        \E ix \in {CharIndex(context)} :
            \E k \in 1 .. Len(avoid_keywords) : Contains(context, ix, avoid_keywords[k])

\* the dates the second pass appends for date_patterns[g]
DatesOf(g, t) ==
    UNION {{_normalize_date(ms[j], date_patterns[g].format) :
               j \in {i \in 1 .. Len(ms) : ~is_due_date(t, ms[i])}} \ {NoDate} :
           ms \in {DateFindIter(g, t)}}

\* Second pass: all_dates, as the set of the dates appended
AllDates(t) ==
    UNION {DatesOf(g, t) : g \in 1 .. Len(date_patterns)}

\* s1 < s2 for two strings of the same length
RECURSIVE StrLess(_, _)
StrLess(a, b) ==
    IF a = <<>> \/ b = <<>> THEN a = <<>> /\ b # <<>>
    ELSE IF a[1] # b[1] THEN DigitVal(a[1]) < DigitVal(b[1])
    ELSE StrLess(Tail(a), Tail(b))

\* min(all_dates)
MinDate(S) ==
    CHOOSE d \in S : \A o \in S : o = d \/ StrLess(d, o)

\* Last fallback: the first pattern that matches anywhere decides
RECURSIVE FallbackPass(_, _)
FallbackPass(g, t) ==
    IF g > Len(date_patterns) THEN NoDate
    ELSE CHOOSE d \in {IF m # None THEN _normalize_date(m, date_patterns[g].format)
                        ELSE FallbackPass(g + 1, t) :
                        m \in {DateSearch(g, t)}} : TRUE

\* the second and the last pass
LaterPasses(t) ==
    CHOOSE d \in {IF all_dates # {} THEN MinDate(all_dates) ELSE FallbackPass(1, t) :
                    all_dates \in {AllDates(t)}} : TRUE

ExtractFromLower(t) ==
    CHOOSE d \in {IF first # NoDate THEN first ELSE LaterPasses(t) :
                    first \in {PriorityPass(1, t)}} : TRUE

extract_invoice_date(raw) ==
    CHOOSE d \in {ExtractFromLower(text_lower) : text_lower \in {Lower(raw)}} : TRUE

(***************************************************************************)
(* classify_by_template.  The similarity scorer is external: ssim gives,   *)
(* for each loaded template, the score it returns or the exception it      *)
(* raises for this image.                                                  *)
(***************************************************************************)
TEMPLATE_THRESHOLD ==
    Pct(40)

SsimOk(score) ==
    [raises |-> FALSE, score |-> score]

SsimRaises ==
    [raises |-> TRUE, score |-> 0]

\* The loop over self.templates (loaded in registry order): best is
\* [match, score].
RECURSIVE TemplateLoop(_, _, _, _)
TemplateLoop(i, loaded, ssim, best) ==
    IF i > Len(SUPPLIERS) THEN best
    ELSE LET name == SUPPLIERS[i].name
         IN  IF name \in loaded /\ ~ssim[name].raises /\ ssim[name].score > best.score
             THEN TemplateLoop(i + 1, loaded, ssim, [match |-> name, score |-> ssim[name].score])
             ELSE TemplateLoop(i + 1, loaded, ssim, best)

\* classify_by_template as it would be without the threshold on the score
classify_by_template_AnyScore(loaded, ssim) ==
    LET best == TemplateLoop(1, loaded, ssim, [match |-> "", score |-> 0])
    IN  IF loaded = {} THEN None
        ELSE IF best.match # ""
        THEN [supplier |-> best.match, confidence |-> best.score, method |-> "template",
              details |-> [similarity_score |-> best.score],
              invoice_date |-> NoDate, ocr_text |-> NoText]
        ELSE None

classify_by_template(loaded, ssim) ==
    LET best == TemplateLoop(1, loaded, ssim, [match |-> "", score |-> 0])
    IN  IF loaded = {} THEN None
        ELSE IF best.match # "" /\ best.score >= TEMPLATE_THRESHOLD
        THEN [supplier |-> best.match, confidence |-> best.score, method |-> "template",
              details |-> [similarity_score |-> best.score],
              invoice_date |-> NoDate, ocr_text |-> NoText]
        ELSE None

(***************************************************************************)
(* classify                                                                *)
(***************************************************************************)
NIF_SHORT_CIRCUIT ==
    Pct(90)

HYBRID_BONUS ==
    Pct(10)

TEXT_SAMPLE_LEN ==
    500

\* ErrorResult as it would be if the except branch reused the "unknown"
\* fallback of the end of classify
ErrorResultAsNone(message) ==
    [supplier |-> "unknown", confidence |-> 0, method |-> "none",
     details |-> [error |-> message], invoice_date |-> <<>>, ocr_text |-> NoText]

\* the ClassificationResult of the except branch around pdf_to_image
ErrorResult(message) ==
    [supplier |-> "unknown", confidence |-> 0, method |-> "error",
     details |-> [error |-> message], invoice_date |-> NoDate, ocr_text |-> NoText]

\* Attach as it would be without the assignment of ocr_text
AttachDateOnly(r, date, t) ==
    [r EXCEPT !.invoice_date = date]

\* result.invoice_date = invoice_date; result.ocr_text = text
Attach(r, date, t) ==
    [r EXCEPT !.invoice_date = date, !.ocr_text = t]

UnknownResult(date, t) ==
    [supplier |-> "unknown", confidence |-> 0, method |-> "none",
     details |-> [text_sample |-> SubSeq(t, 1, Min(TEXT_SAMPLE_LEN, Len(t)))],
     invoice_date |-> date, ocr_text |-> t]

\* HybridResult as it would be with the confidence clamped at 1.0
HybridResultClamped(tr, kr, date, t) ==
    [supplier |-> tr.supplier,
     confidence |-> Min(Unit, Max(tr.confidence, kr.confidence) + HYBRID_BONUS),
     method |-> "hybrid",
     details |-> [template |-> tr.details, keywords |-> kr.details],
     invoice_date |-> date, ocr_text |-> t]

\* the ClassificationResult built when both methods name the same supplier
HybridResult(tr, kr, date, t) ==
    [supplier |-> tr.supplier,
     confidence |-> Max(tr.confidence, kr.confidence) + HYBRID_BONUS,
     method |-> "hybrid",
     details |-> [template |-> tr.details, keywords |-> kr.details],
     invoice_date |-> date, ocr_text |-> t]

\* Combine as it would be with >= in the comparison of the confidences
CombineTemplateOnTies(tr, kr, date, t) ==
    IF tr # None /\ kr # None
    THEN IF tr.supplier = kr.supplier
         THEN HybridResult(tr, kr, date, t)
         ELSE IF tr.confidence >= kr.confidence
         THEN Attach(tr, date, t)
         ELSE Attach(kr, date, t)
    ELSE IF tr # None THEN Attach(tr, date, t)
    ELSE IF kr # None THEN Attach(kr, date, t)
    ELSE UnknownResult(date, t)

\* "Combine results" to the end of classify
Combine(tr, kr, date, t) ==
    IF tr # None /\ kr # None
    THEN IF tr.supplier = kr.supplier
         THEN HybridResult(tr, kr, date, t)
         ELSE IF tr.confidence > kr.confidence
         THEN Attach(tr, date, t)
         ELSE Attach(kr, date, t)
    ELSE IF tr # None THEN Attach(tr, date, t)
    ELSE IF kr # None THEN Attach(kr, date, t)
    ELSE UnknownResult(date, t)

(***************************************************************************)
(* The inputs of a classify call: what the external rasterizer, OCR engine *)
(* and similarity scorer answer.                                           *)
(***************************************************************************)
MaxFrags ==
    2

NoiseLen ==
    510

Noise ==
    [i \in 1 .. NoiseLen |-> "x"]

RECURSIVE Concat(_)
Concat(parts) ==
    IF parts = <<>> THEN <<>> ELSE Head(parts) \o Concat(Tail(parts))

\* every concatenation of at most n fragments of the library
TextsOf(library, n) ==
    {Concat(parts) : parts \in UNION {[1 .. k -> library] : k \in 0 .. n}}

PageFragments ==
    {<<"N", "o", "v", "a", "d", "i", "s", " ", "a", "l", "f", "a", "r", "r", "o", "b", "e", "i", "r", "a", " ">>,
     <<"D", "a", "t", "a", " ", "d", "e", " ", "e", "m", "i", "s", "s", "a~", "o", ":", " ", "1", "0", "/", "0", "2", "/", "2", "0", "2", "5", " ">>,
     <<"C", "o", "n", "t", "r", "i", "b", "u", "i", "n", "t", "e", " ", "5", "0", "2", "0", "3", "0", "7", "1", "2", " ">>,
     <<"N", "I", "F", ":", " ", "5", "0", "0", " ", "0", "9", "9", " ", "8", "7", "1", " ", "g", "u", "i", "a", " ", "d", "e", " ", "d", "e", "v", "o", "l", "u", "c,", "a~", "o", " ">>,
     <<"m", "a", "k", "r", "o", " ", "c", "a", "s", "h", " ", "c", "a", "r", "r", "y", " ">>,
     Noise}

PageTexts ==
    TextsOf(PageFragments, MaxFrags)

HeaderTexts ==
    {<<>>, <<"3", "0", "-", "s", "e", "t", "-", "2", "5">>}

RasterErrors ==
    {"Could not convert PDF: doc.pdf", "Unable to get page count."}

TemplateSets ==
    {{}, {"novadis", "makro"}}

SsimOutcomes ==
    {SsimRaises, SsimOk(Pct(30)), SsimOk(Pct(70)), SsimOk(Pct(95))}

(***************************************************************************)
(* The classify call as a state machine                                    *)
(***************************************************************************)
Init ==
    /\ templates \in TemplateSets
    /\ pc = "start"
    /\ image = "unset"
    /\ text = NoText
    /\ header_text = NoText
    /\ invoice_date = NoDate
    /\ nif_result = None
    /\ template_result = None
    /\ keyword_result = None
    /\ result = None
    /\ calls = <<>>
    /\ NoCaller

\* image = self.pdf_to_image(pdf_path)
Rasterize ==
    /\ pc = "start"
    /\ image' = "ok"
    /\ pc' = "ocr"
    /\ calls' = Append(calls, "pdf_to_image")
    /\ UNCHANGED <<templates, text, header_text, invoice_date, nif_result,
                   template_result, keyword_result, result>>
    /\ UNCHANGED <<replay_vars, batch_vars>>

\* pdf_to_image raises: except Exception as e: return ClassificationResult(...)
RasterizeFails ==
    /\ pc = "start"
    /\ \E message \in RasterErrors :
          /\ image' = message
          /\ result' = ErrorResult(message)
    /\ pc' = "returned"
    /\ calls' = Append(calls, "pdf_to_image")
    /\ UNCHANGED <<templates, text, header_text, invoice_date, nif_result,
                   template_result, keyword_result>>
    /\ UNCHANGED <<replay_vars, batch_vars>>

\* text = self.extract_text_ocr(image): the OCR answers (with the
\* Portuguese model, or with the default one after a TesseractError)
ExtractTextOcr ==
    /\ pc = "ocr"
    /\ \E raw \in PageTexts : text' = Lower(raw)
    /\ pc' = "date"
    /\ calls' = Append(calls, "extract_text_ocr")
    /\ UNCHANGED <<templates, image, header_text, invoice_date, nif_result,
                   template_result, keyword_result, result>>
    /\ UNCHANGED <<replay_vars, batch_vars>>

\* extract_text_ocr raises (the fallback call fails too, or the first call
\* raises something other than TesseractError): nothing in classify catches it
ExtractTextOcrRaises ==
    /\ pc = "ocr"
    /\ pc' = "raised"
    /\ calls' = Append(calls, "extract_text_ocr")
    /\ UNCHANGED <<templates, image, text, header_text, invoice_date, nif_result,
                   template_result, keyword_result, result>>
    /\ UNCHANGED <<replay_vars, batch_vars>>

\* invoice_date = self.extract_invoice_date(text)
ExtractDate ==
    /\ pc = "date"
    /\ invoice_date' = extract_invoice_date(text)
    /\ pc' = IF invoice_date' = NoDate THEN "header" ELSE "nif"
    /\ calls' = Append(calls, "extract_invoice_date")
    /\ UNCHANGED <<templates, image, text, header_text, nif_result,
                   template_result, keyword_result, result>>
    /\ UNCHANGED <<replay_vars, batch_vars>>

\* if not invoice_date: header_text = ...; invoice_date = ...
ExtractHeaderDate ==
    /\ pc = "header"
    /\ \E raw \in HeaderTexts : header_text' = Lower(raw)
    /\ invoice_date' = extract_invoice_date(header_text')
    /\ pc' = "nif"
    /\ calls' = calls \o <<"extract_header_text", "extract_invoice_date">>
    /\ UNCHANGED <<templates, image, text, nif_result,
                   template_result, keyword_result, result>>
    /\ UNCHANGED <<replay_vars, batch_vars>>

\* extract_header_text raises: nothing in classify catches it
ExtractHeaderRaises ==
    /\ pc = "header"
    /\ pc' = "raised"
    /\ calls' = Append(calls, "extract_header_text")
    /\ UNCHANGED <<templates, image, text, header_text, invoice_date, nif_result,
                   template_result, keyword_result, result>>
    /\ UNCHANGED <<replay_vars, batch_vars>>

\* result = self.classify_by_nif(text); if result and result.confidence >= 0.9: ...
ClassifyByNif ==
    /\ pc = "nif"
    /\ nif_result' = classify_by_nif(text)
    /\ IF nif_result' # None /\ nif_result'.confidence >= NIF_SHORT_CIRCUIT
       THEN /\ result' = Attach(nif_result', invoice_date, text)
            /\ pc' = "returned"
       ELSE /\ result' = result
            /\ pc' = "template"
    /\ calls' = Append(calls, "classify_by_nif")
    /\ UNCHANGED <<templates, image, text, header_text, invoice_date,
                   template_result, keyword_result>>
    /\ UNCHANGED <<replay_vars, batch_vars>>

\* template_result = self.classify_by_template(image)
ClassifyByTemplate ==
    /\ pc = "template"
    /\ \E ssim \in [templates -> SsimOutcomes] :
          template_result' = classify_by_template(templates, ssim)
    /\ pc' = "keywords"
    /\ calls' = Append(calls, "classify_by_template")
    /\ UNCHANGED <<templates, image, text, header_text, invoice_date, nif_result,
                   keyword_result, result>>
    /\ UNCHANGED <<replay_vars, batch_vars>>

\* keyword_result = self.classify_by_keywords(text)
ClassifyByKeywords ==
    /\ pc = "keywords"
    /\ keyword_result' = classify_by_keywords(text)
    /\ pc' = "combine"
    /\ calls' = Append(calls, "classify_by_keywords")
    /\ UNCHANGED <<templates, image, text, header_text, invoice_date, nif_result,
                   template_result, result>>
    /\ UNCHANGED <<replay_vars, batch_vars>>

\* the fusion of the two results and the return
Return ==
    /\ pc = "combine"
    /\ result' = Combine(template_result, keyword_result, invoice_date, text)
    /\ pc' = "returned"
    /\ UNCHANGED <<templates, image, text, header_text, invoice_date, nif_result,
                   template_result, keyword_result, calls>>
    /\ UNCHANGED <<replay_vars, batch_vars>>

Next ==
    \/ Rasterize
    \/ RasterizeFails
    \/ ExtractTextOcr
    \/ ExtractTextOcrRaises
    \/ ExtractDate
    \/ ExtractHeaderDate
    \/ ExtractHeaderRaises
    \/ ClassifyByNif
    \/ ClassifyByTemplate
    \/ ClassifyByKeywords
    \/ Return

Spec ==
    Init /\ [][Next]_vars

(***************************************************************************)
(* Direct calls of extract_invoice_date, classify_by_nif and               *)
(* classify_by_keywords: the text is drawn from the concatenations of a    *)
(* few fragments and the function is applied to it.  classify passes the   *)
(* matchers the lowercased OCR text; extract_invoice_date lowercases its   *)
(* argument itself.                                                        *)
(***************************************************************************)
InitCall(texts) ==
    /\ templates = {}
    /\ pc = "call"
    /\ image = "unset"
    /\ text \in texts
    /\ header_text = NoText
    /\ invoice_date = NoDate
    /\ nif_result = None
    /\ template_result = None
    /\ keyword_result = None
    /\ result = None
    /\ calls = <<>>
    /\ NoCaller

MaxDateFrags ==
    3

DateFragments ==
    {<<"d", "a", "t", "a", " ", "d", "e", " ", "e", "m", "i", "s", "s", "a~", "o", ":", " ">>,
     <<"d", "a", "t", "a", " ", "d", "a", " ", "f", "a", "t", "u", "r", "a", ":", " ">>,
     <<"E", "m", "i", "t", "i", "d", "o", " ", "e", "m", " ">>,
     <<"1", "0", "/", "0", "2", "/", "2", "0", "2", "5", " ">>,
     <<"2", "0", "2", "5", "-", "0", "1", "-", "0", "5", " ">>,
     <<"3", "1", "/", "0", "4", "/", "2", "0", "2", "5", " ">>,
     <<"v", "e", "n", "c", "i", "m", "e", "n", "t", "o", " ">>,
     <<"2", "/", "1", "6", "/", "2", "0", "2", "5", " ">>,
     <<"3", "0", "-", "s", "e", "t", "-", "1", "9", " ">>}

DateTexts ==
    TextsOf(DateFragments, MaxDateFrags)

InitDate ==
    InitCall(DateTexts)

\* invoice_date = extract_invoice_date(text)
CallExtractDate ==
    /\ pc = "call"
    /\ invoice_date' = extract_invoice_date(text)
    /\ pc' = "done"
    /\ calls' = Append(calls, "extract_invoice_date")
    /\ UNCHANGED <<templates, image, text, header_text, nif_result,
                   template_result, keyword_result, result>>
    /\ UNCHANGED <<replay_vars, batch_vars>>

NextDate ==
    CallExtractDate

SpecDate ==
    InitDate /\ [][NextDate]_vars

MaxNifFrags ==
    3

NifFragments ==
    {<<"n", "i", "f", " ", "5", "0", "0", "0", "9", "9", "8", "7", "1", " ">>,
     <<"5", "0", "0", " ", "0", "9", "9", " ", "8", "7", "1", " ">>,
     <<"g", "u", "i", "a", " ", "d", "e", " ", "d", "e", "v", "o", "l", "u", "c,", "a~", "o", " ">>,
     <<"n", "o", "t", "a", " ", "d", "e", " ", "c", "r", "e'", "d", "i", "t", "o", " ">>,
     <<"p", "r", "o", "d", "u", "t", "o", "\n", "r", "e", "c", "l", "a", "m", "a", "d", "o", " ">>,
     <<"p", "t", "5", "0", "4", "3", "5", "0", "9", "0", "0", " ">>,
     <<"0", "0", "0", "0", "0", "0", "0", "0", "0", " ">>}

NifTexts ==
    TextsOf(NifFragments, MaxNifFrags)

InitNif ==
    InitCall(NifTexts)

\* nif_result = classify_by_nif(text)
CallClassifyByNif ==
    /\ pc = "call"
    /\ nif_result' = classify_by_nif(text)
    /\ pc' = "done"
    /\ calls' = Append(calls, "classify_by_nif")
    /\ UNCHANGED <<templates, image, text, header_text, invoice_date,
                   template_result, keyword_result, result>>
    /\ UNCHANGED <<replay_vars, batch_vars>>

NextNif ==
    CallClassifyByNif

SpecNif ==
    InitNif /\ [][NextNif]_vars

MaxKeywordFrags ==
    3

KeywordFragments ==
    {<<"n", "o", "v", "a", "d", "i", "s", " ">>,
     <<"a", "l", "f", "a", "r", "r", "o", "b", "e", "i", "r", "a", " ">>,
     <<"m", "a", "k", "r", "o", " ">>,
     <<"l", "i", "d", "l", " ">>,
     <<"c", "a", "s", "h", " ", "c", "a", "r", "r", "y", " ">>,
     <<"f", "o", "n", "t", "a", "i", "n", "h", "a", "s", " ">>,
     <<"g", "a", "l", "p", " ">>}

KeywordTexts ==
    TextsOf(KeywordFragments, MaxKeywordFrags)

InitKeywords ==
    InitCall(KeywordTexts)

\* keyword_result = classify_by_keywords(text)
CallClassifyByKeywords ==
    /\ pc = "call"
    /\ keyword_result' = classify_by_keywords(text)
    /\ pc' = "done"
    /\ calls' = Append(calls, "classify_by_keywords")
    /\ UNCHANGED <<templates, image, text, header_text, invoice_date, nif_result,
                   template_result, result>>
    /\ UNCHANGED <<replay_vars, batch_vars>>

NextKeywords ==
    CallClassifyByKeywords

SpecKeywords ==
    InitKeywords /\ [][NextKeywords]_vars

(***************************************************************************)
(* Calls of extract_invoice_date on two more families of texts: dates      *)
(* written in the slash, dash and dot grammars, and issue-date labels      *)
(* followed by dates inside and across the edge of the 30-character        *)
(* search area.                                                            *)
(***************************************************************************)
MaxGrammarFrags ==
    2

GrammarFragments ==
    {<<"1", "6", "/", "0", "2", "/", "2", "0", "2", "5", " ">>,
     <<"2", "/", "1", "6", "/", "2", "0", "2", "5", " ">>,
     <<"0", "5", "/", "0", "6", "/", "2", "0", "2", "5", " ">>,
     <<"1", "3", "/", "1", "4", "/", "2", "0", "2", "5", " ">>,
     <<"1", "6", "-", "0", "2", "-", "2", "0", "2", "5", " ">>,
     <<"2", "-", "1", "6", "-", "2", "0", "2", "5", " ">>,
     <<"0", "5", ".", "0", "6", ".", "2", "0", "2", "5", " ">>,
     <<"2", ".", "1", "6", ".", "2", "0", "2", "5", " ">>}

MaxWindowFrags ==
    3

WindowFragments ==
    {<<"D", "a", "t", "a", " ", "d", "e", " ", "e", "m", "i", "s", "s", "a~", "o", ":", " ">>,
     <<"E", "m", "i", "t", "i", "d", "o", " ", "e", "m", " ", "1", "0", "/", "0", "2", "/", "2", "0", "2", "5", " ">>,
     <<"o", "r", "i", "g", "i", "n", "a", "l", " ", "d", "o", " ", "c", "l", "i", "e", "n", "t", "e", ",", " ">>,
     <<"2", "0", "2", "5", "-", "0", "2", "-", "1", "5", " ">>,
     <<"1", "0", "/", "0", "2", "/", "2", "0", "2", "5", " ">>,
     <<"3", "1", "/", "0", "4", "/", "2", "0", "2", "5", " ">>}

SpecGrammar ==
    InitCall(TextsOf(GrammarFragments, MaxGrammarFrags)) /\ [][NextDate]_vars

SpecPasses ==
    InitCall(TextsOf(WindowFragments, MaxWindowFrags)) /\ [][NextDate]_vars
(***************************************************************************)
(* Repeated and interleaved classify calls on one InvoiceClassifier.       *)
(* A document fixes what the rasterizer, the OCR and ssim answer for it.   *)
(* Two calls may be in progress: one runs, the other is suspended with its *)
(* locals; self.templates is the only state they share.                    *)
(***************************************************************************)
MaxCalls ==
    3

Documents ==
    {[raster |-> "ok",
      page |-> <<"N", "o", "v", "a", "d", "i", "s", " ", "a", "l", "f", "a", "r", "r", "o", "b", "e", "i", "r", "a", " ">>,
      header |-> <<"3", "0", "-", "s", "e", "t", "-", "2", "5">>,
      ssim |-> [n \in UNION TemplateSets |-> IF n = "novadis" THEN SsimOk(Pct(70)) ELSE SsimOk(Pct(30))]],
     [raster |-> "ok",
      page |-> <<"m", "a", "k", "r", "o", " ", "c", "a", "s", "h", " ", "c", "a", "r", "r", "y", " ",
                 "1", "0", "/", "0", "2", "/", "2", "0", "2", "5", " ">>,
      header |-> <<>>,
      ssim |-> [n \in UNION TemplateSets |-> IF n = "novadis" THEN SsimRaises ELSE SsimOk(Pct(95))]],
     [raster |-> "ok",
      page |-> <<"C", "o", "n", "t", "r", "i", "b", "u", "i", "n", "t", "e", " ", "5", "0", "2", "0", "3", "0", "7", "1", "2", " ">>,
      header |-> <<>>,
      ssim |-> [n \in UNION TemplateSets |-> SsimOk(Pct(30))]],
     [raster |-> "Unable to get page count.",
      page |-> <<>>,
      header |-> <<>>,
      ssim |-> [n \in UNION TemplateSets |-> SsimRaises]]}

\* the locals of a classify call
Locals ==
    [pc |-> pc, image |-> image, text |-> text, header_text |-> header_text,
     invoice_date |-> invoice_date, nif_result |-> nif_result,
     template_result |-> template_result, keyword_result |-> keyword_result,
     result |-> result, calls |-> calls, doc |-> doc]

\* the locals where no call is in progress
NoCall ==
    [pc |-> "idle", image |-> "unset", text |-> NoText, header_text |-> NoText,
     invoice_date |-> NoDate, nif_result |-> None,
     template_result |-> None, keyword_result |-> None,
     result |-> None, calls |-> <<>>, doc |-> None]

\* the locals of the running call become l
Resume(l) ==
    /\ pc' = l.pc
    /\ image' = l.image
    /\ text' = l.text
    /\ header_text' = l.header_text
    /\ invoice_date' = l.invoice_date
    /\ nif_result' = l.nif_result
    /\ template_result' = l.template_result
    /\ keyword_result' = l.keyword_result
    /\ result' = l.result
    /\ calls' = l.calls
    /\ doc' = l.doc

InitReplay ==
    /\ templates \in TemplateSets
    /\ pc = "idle"
    /\ image = "unset"
    /\ text = NoText
    /\ header_text = NoText
    /\ invoice_date = NoDate
    /\ nif_result = None
    /\ template_result = None
    /\ keyword_result = None
    /\ result = None
    /\ calls = <<>>
    /\ doc = None
    /\ suspended = NoCall
    /\ seen = [d \in Documents |-> None]
    /\ ncalls = 0
    /\ dry_run = FALSE
    /\ upload = FALSE
    /\ fs = None
    /\ pdf_files = <<>>
    /\ stats = None
    /\ action = ""
    /\ dest_path = <<>>
    /\ uploads = <<>>
    /\ request = None

\* classify(pdf_path) is called: a new frame of locals
CallClassify ==
    /\ pc = "idle"
    /\ ncalls < MaxCalls
    /\ \E d \in Documents : Resume([NoCall EXCEPT !.pc = "start", !.doc = d])
    /\ ncalls' = ncalls + 1
    /\ UNCHANGED <<templates, suspended, seen, batch_vars>>

\* the running call is suspended and the other one goes on
Switch ==
    /\ <<pc, suspended.pc>> # <<"idle", "idle">>
    /\ suspended' = Locals
    /\ Resume(suspended)
    /\ UNCHANGED <<templates, seen, ncalls, batch_vars>>

\* the steps of classify that ask the rasterizer, the OCR or ssim, with the
\* answers the document fixes

\* image = self.pdf_to_image(pdf_path)
RasterizeDoc ==
    /\ pc = "start"
    /\ doc.raster = "ok"
    /\ image' = "ok"
    /\ pc' = "ocr"
    /\ calls' = Append(calls, "pdf_to_image")
    /\ UNCHANGED <<templates, text, header_text, invoice_date, nif_result,
                   template_result, keyword_result, result>>
    /\ UNCHANGED <<replay_vars, batch_vars>>

\* pdf_to_image raises: except Exception as e: return ClassificationResult(...)
RasterizeDocFails ==
    /\ pc = "start"
    /\ doc.raster # "ok"
    /\ image' = doc.raster
    /\ result' = ErrorResult(doc.raster)
    /\ pc' = "returned"
    /\ calls' = Append(calls, "pdf_to_image")
    /\ UNCHANGED <<templates, text, header_text, invoice_date, nif_result,
                   template_result, keyword_result>>
    /\ UNCHANGED <<replay_vars, batch_vars>>

\* text = self.extract_text_ocr(image)
ExtractTextOcrDoc ==
    /\ pc = "ocr"
    /\ text' = Lower(doc.page)
    /\ pc' = "date"
    /\ calls' = Append(calls, "extract_text_ocr")
    /\ UNCHANGED <<templates, image, header_text, invoice_date, nif_result,
                   template_result, keyword_result, result>>
    /\ UNCHANGED <<replay_vars, batch_vars>>

\* if not invoice_date: header_text = ...; invoice_date = ...
ExtractHeaderDateDoc ==
    /\ pc = "header"
    /\ header_text' = Lower(doc.header)
    /\ invoice_date' = extract_invoice_date(header_text')
    /\ pc' = "nif"
    /\ calls' = calls \o <<"extract_header_text", "extract_invoice_date">>
    /\ UNCHANGED <<templates, image, text, nif_result,
                   template_result, keyword_result, result>>
    /\ UNCHANGED <<replay_vars, batch_vars>>

\* classify_by_template as it would be if it dropped the templates it has used
ClassifyByTemplateEvicting ==
    /\ pc = "template"
    /\ template_result' = classify_by_template(templates, [n \in templates |-> doc.ssim[n]])
    /\ templates' = {}
    /\ pc' = "keywords"
    /\ calls' = Append(calls, "classify_by_template")
    /\ UNCHANGED <<image, text, header_text, invoice_date, nif_result,
                   keyword_result, result>>
    /\ UNCHANGED <<replay_vars, batch_vars>>

\* template_result = self.classify_by_template(image)
ClassifyByTemplateDoc ==
    /\ pc = "template"
    /\ template_result' = classify_by_template(templates, [n \in templates |-> doc.ssim[n]])
    /\ pc' = "keywords"
    /\ calls' = Append(calls, "classify_by_template")
    /\ UNCHANGED <<templates, image, text, header_text, invoice_date, nif_result,
                   keyword_result, result>>
    /\ UNCHANGED <<replay_vars, batch_vars>>

\* classify returns to its caller, which keeps the first result of a document
ReturnToCaller ==
    /\ pc = "returned"
    /\ seen' = IF seen[doc] = None THEN [seen EXCEPT ![doc] = result] ELSE seen
    /\ Resume(NoCall)
    /\ UNCHANGED <<templates, suspended, ncalls, batch_vars>>

NextReplay ==
    \/ CallClassify
    \/ Switch
    \/ RasterizeDoc
    \/ RasterizeDocFails
    \/ ExtractTextOcrDoc
    \/ ExtractDate
    \/ ExtractHeaderDateDoc
    \/ ClassifyByNif
    \/ ClassifyByTemplateDoc
    \/ ClassifyByKeywords
    \/ Return
    \/ ReturnToCaller

SpecReplay ==
    InitReplay /\ [][NextReplay]_vars

(***************************************************************************)
(* The upload operations (parseur_client.py, docupipe_client.py and        *)
(* upload_to_api).  An exception is [class, text]; env says what the       *)
(* environment of one call answers: env.imports (None or the ImportError   *)
(* of the import statements), env.open (None or the exception of open),    *)
(* env.post (the response of requests.post or the exception it raises; a   *)
(* response is [status_code, text, json], json = None when the text is     *)
(* not JSON) and env.json (the exception response.json() raises then).     *)
(* A message is the tuple of the parts of its f-string; the None of an     *)
(* optional string is written "None".  A value with the field raised is    *)
(* an exception that leaves the operation.                                 *)
(***************************************************************************)
\* the classes an except clause for class c catches
Subclasses(c) ==
    CASE c = "Timeout" -> {"Timeout", "ConnectTimeout", "ReadTimeout"}
      [] c = "RequestException" -> {"RequestException", "Timeout", "ConnectTimeout", "ReadTimeout",
                                     "ConnectionError", "requests.JSONDecodeError"}
      [] c = "ImportError" -> {"ImportError", "ModuleNotFoundError"}
      [] c = "Exception" -> {"Exception", "RequestException", "Timeout", "ConnectTimeout", "ReadTimeout",
                             "ConnectionError", "requests.JSONDecodeError", "ValueError",
                             "AttributeError", "FileNotFoundError", "PermissionError",
                             "ImportError", "ModuleNotFoundError"}
      [] OTHER -> {c}

\* route = get_route(supplier): SUPPLIER_ROUTES.get(supplier.lower()); the
\* registry keys are lowercase
get_route(supplier) ==
    LET mailbox == [soares |-> "111948", justdrinks |-> "112442", novadis |-> "111943",
                    garcias |-> "112445", teofilo |-> "112431", jmv |-> "112446",
                    absolutlyvintage |-> "112448"]
        workflow == [continente |-> "4Vy92EQH", makro |-> "jtVquUzt", pingodoce |-> "PRtYtwC7",
                     lidl |-> "YxiR0kCy", inframoura |-> "y2c7v2bS", robalo |-> "kjigWqyQ"]
    IN  IF supplier \in DOMAIN mailbox
        THEN [provider |-> "parseur", mailbox_id |-> mailbox[supplier], workflow_id |-> "None",
              enabled |-> TRUE]
        ELSE IF supplier \in DOMAIN workflow
        THEN [provider |-> "docupipe", mailbox_id |-> "None", workflow_id |-> workflow[supplier],
              enabled |-> TRUE]
        ELSE IF supplier \in SupplierNames
        THEN [provider |-> "docupipe", mailbox_id |-> "None", workflow_id |-> "None", enabled |-> TRUE]
        ELSE None

\* UploadResult(...) of either client
UploadResult(success, supplier, filename, message, posted) ==
    [success |-> success, supplier |-> supplier, filename |-> filename, message |-> message,
     mailbox_id |-> "None", document_id |-> "None", job_id |-> "None", response_data |-> None,
     posted |-> posted]

\* upload_document as it would be with the clause for RequestException
\* written before the clause for Timeout
upload_document_RequestExceptionFirst(provider, api_key, filename, id, env) ==
    LET Failure(message, posted) ==
            [UploadResult(FALSE, "", filename, message, posted)
                EXCEPT !.mailbox_id = IF provider = "parseur" THEN id ELSE "None"]
        Except(e, posted) ==
            IF e.class \in Subclasses("RequestException")
            THEN Failure(<<"Request failed: ", e.text>>, posted)
            ELSE IF e.class \in Subclasses("Timeout") THEN Failure(<<"Request timed out">>, posted)
            ELSE IF e.class \in Subclasses("Exception")
            THEN Failure(<<"Unexpected error: ", e.text>>, posted)
            ELSE [raised |-> TRUE, exception |-> e, posted |-> posted]
        response == env.post
    IN  IF api_key = ""
        THEN Failure(IF provider = "parseur" THEN <<"Parseur API key not configured">>
                     ELSE <<"Docupipe API key not configured">>, FALSE)
        ELSE IF env.open # None THEN Except(env.open, FALSE)
        ELSE IF "class" \in DOMAIN response THEN Except(response, TRUE)
        ELSE IF response.status_code \in {200, 201, 202}
        THEN IF response.text # "" /\ response.json = None THEN Except(env.json, TRUE)
             ELSE IF provider = "parseur"
             THEN [UploadResult(TRUE, "", filename, <<"Document uploaded successfully">>, TRUE)
                      EXCEPT !.mailbox_id = id,
                             !.response_data = IF response.text # "" THEN response.json ELSE None]
             ELSE IF response.text # "" /\ response.json.kind # "dict"
             THEN Except([class |-> "AttributeError",
                          text |-> "'list' object has no attribute 'get'"], TRUE)
             ELSE [UploadResult(TRUE, "", filename, <<"Document uploaded successfully">>, TRUE)
                      EXCEPT !.document_id = IF response.text # "" THEN response.json.documentId ELSE "None",
                             !.job_id = IF response.text # "" THEN response.json.jobId ELSE "None",
                             !.response_data = IF response.text # "" THEN response.json
                                               ELSE [kind |-> "dict"]]
        ELSE Failure(<<"HTTP ", response.status_code, ": ", response.text>>, TRUE)

\* ParseurClient.upload_document(file_path, mailbox_id) and
\* DocupipeClient.upload_document(file_path, workflow_id); api_key is
\* self.api_key, filename is file_path.name
upload_document(provider, api_key, filename, id, env) ==
    LET Failure(message, posted) ==
            [UploadResult(FALSE, "", filename, message, posted)
                EXCEPT !.mailbox_id = IF provider = "parseur" THEN id ELSE "None"]
        Except(e, posted) ==
            IF e.class \in Subclasses("Timeout") THEN Failure(<<"Request timed out">>, posted)
            ELSE IF e.class \in Subclasses("RequestException")
            THEN Failure(<<"Request failed: ", e.text>>, posted)
            ELSE IF e.class \in Subclasses("Exception")
            THEN Failure(<<"Unexpected error: ", e.text>>, posted)
            ELSE [raised |-> TRUE, exception |-> e, posted |-> posted]
        response == env.post
    IN  IF api_key = ""
        THEN Failure(IF provider = "parseur" THEN <<"Parseur API key not configured">>
                     ELSE <<"Docupipe API key not configured">>, FALSE)
        ELSE IF env.open # None THEN Except(env.open, FALSE)
        ELSE IF "class" \in DOMAIN response THEN Except(response, TRUE)
        ELSE IF response.status_code \in {200, 201, 202}
        THEN IF response.text # "" /\ response.json = None THEN Except(env.json, TRUE)
             ELSE IF provider = "parseur"
             THEN [UploadResult(TRUE, "", filename, <<"Document uploaded successfully">>, TRUE)
                      EXCEPT !.mailbox_id = id,
                             !.response_data = IF response.text # "" THEN response.json ELSE None]
             ELSE IF response.text # "" /\ response.json.kind # "dict"
             THEN Except([class |-> "AttributeError",
                          text |-> "'list' object has no attribute 'get'"], TRUE)
             ELSE [UploadResult(TRUE, "", filename, <<"Document uploaded successfully">>, TRUE)
                      EXCEPT !.document_id = IF response.text # "" THEN response.json.documentId ELSE "None",
                             !.job_id = IF response.text # "" THEN response.json.jobId ELSE "None",
                             !.response_data = IF response.text # "" THEN response.json
                                               ELSE [kind |-> "dict"]]
        ELSE Failure(<<"HTTP ", response.status_code, ": ", response.text>>, TRUE)

\* upload_for_supplier as it would be with the API key looked at before the
\* route
upload_for_supplier_KeyFirst(provider, api_key, filename, supplier, env) ==
    LET route == get_route(supplier)
        Refusal(message) ==
            [UploadResult(FALSE, supplier, filename, message, FALSE)
                EXCEPT !.mailbox_id = IF provider = "parseur" THEN "" ELSE "None"]
    IN  IF api_key = ""
        THEN Refusal(IF provider = "parseur" THEN <<"Parseur API key not configured">>
                     ELSE <<"Docupipe API key not configured">>)
        ELSE IF route = None
        THEN Refusal(<<"No API route configured for supplier: ", supplier>>)
        ELSE IF route.provider # provider
        THEN Refusal(<<"Provider '", route.provider, "' not implemented yet">>)
        ELSE CHOOSE r \in {IF "raised" \in DOMAIN u THEN u ELSE [u EXCEPT !.supplier = supplier] :
                           u \in {upload_document(provider, api_key, filename,
                                                  IF provider = "parseur" THEN route.mailbox_id
                                                  ELSE route.workflow_id, env)}} : TRUE

\* ParseurClient.upload_for_supplier and DocupipeClient.upload_for_supplier
upload_for_supplier(provider, api_key, filename, supplier, env) ==
    LET route == get_route(supplier)
        Refusal(message) ==
            [UploadResult(FALSE, supplier, filename, message, FALSE)
                EXCEPT !.mailbox_id = IF provider = "parseur" THEN "" ELSE "None"]
    IN  IF route = None
        THEN Refusal(<<"No API route configured for supplier: ", supplier>>)
        ELSE IF ~route.enabled
        THEN IF provider = "parseur"
             THEN [Refusal(<<"API route for ", supplier, " is disabled (provider: ", route.provider, ")">>)
                      EXCEPT !.mailbox_id = IF route.mailbox_id # "None" THEN route.mailbox_id ELSE ""]
             ELSE Refusal(<<"API route for ", supplier, " is disabled">>)
        ELSE IF route.provider # provider
        THEN IF provider = "parseur"
             THEN Refusal(<<"Provider '", route.provider, "' not implemented yet">>)
             ELSE Refusal(<<"Supplier ", supplier, " uses provider '", route.provider, "', not docupipe">>)
        ELSE IF provider = "parseur" /\ route.mailbox_id = "None"
        THEN Refusal(<<"No mailbox ID configured for supplier: ", supplier>>)
        ELSE CHOOSE r \in {IF "raised" \in DOMAIN u THEN u ELSE [u EXCEPT !.supplier = supplier] :
                           u \in {upload_document(provider, api_key, filename,
                                                  IF provider = "parseur" THEN route.mailbox_id
                                                  ELSE route.workflow_id, env)}} : TRUE

\* upload_to_api(file_path, supplier); keys holds PARSEUR_API_KEY and
\* DOCUPIPE_API_KEY
upload_to_api(filename, supplier, keys, env) ==
    LET route == get_route(supplier)
        Dict(success, provider, message, posted) ==
            [success |-> success, supplier |-> supplier, provider |-> provider,
             mailbox_id |-> "None", document_id |-> "None", job_id |-> "None",
             message |-> message, posted |-> posted]
    IN  IF env.imports # None
        THEN IF env.imports.class \in Subclasses("ImportError")
             THEN Dict(FALSE, "None", <<"Import error: ", env.imports.text>>, FALSE)
             ELSE Dict(FALSE, "None", <<env.imports.text>>, FALSE)
        ELSE IF route = None
        THEN Dict(FALSE, "None", <<"No API route configured for supplier: ", supplier>>, FALSE)
        ELSE IF route.provider \in {"parseur", "docupipe"}
        THEN CHOOSE d \in {IF "raised" \in DOMAIN r
                           THEN IF r.exception.class \in Subclasses("Exception")
                                THEN Dict(FALSE, "None", <<r.exception.text>>, r.posted)
                                ELSE r
                           ELSE [Dict(r.success, route.provider, r.message, r.posted)
                                    EXCEPT !.supplier = r.supplier,
                                           !.mailbox_id = r.mailbox_id,
                                           !.document_id = r.document_id,
                                           !.job_id = r.job_id] :
                           r \in {upload_for_supplier(route.provider, keys[route.provider],
                                                      filename, supplier, env)}} : TRUE
        ELSE Dict(FALSE, route.provider, <<"Provider '", route.provider, "' not implemented">>, FALSE)

\* the calls of the upload operations ("acme" has no route) and what the
\* environment of a call can answer
UploadRequests ==
    [op : {"upload_document", "upload_for_supplier", "upload_to_api"},
     provider : {"parseur", "docupipe"},
     api_key : {"", "key"},
     filename : {"20250210_Novadis.pdf"},
     supplier : {"novadis", "makro", "galp", "acme"},
     env : [imports : {None, [class |-> "ModuleNotFoundError", text |-> "No module named 'requests'"]},
            open : {None, [class |-> "FileNotFoundError", text |-> "No such file or directory"]},
            post : {[status_code |-> 200, text |-> "{..}",
                     json |-> [kind |-> "dict", documentId |-> "doc-1", jobId |-> "job-1"]],
                    [status_code |-> 202, text |-> "", json |-> None],
                    [status_code |-> 200, text |-> "<html>", json |-> None],
                    [status_code |-> 201, text |-> "[]", json |-> [kind |-> "list"]],
                    [status_code |-> 401, text |-> "Unauthorized", json |-> None],
                    [status_code |-> 500, text |-> "", json |-> None],
                    [class |-> "ReadTimeout", text |-> "Read timed out."],
                    [class |-> "ConnectionError", text |-> "Connection refused"]},
            json : {[class |-> "requests.JSONDecodeError", text |-> "Expecting value"],
                    [class |-> "ValueError", text |-> "Expecting value"]}]]

InitUpload ==
    /\ templates = {}
    /\ pc = "call"
    /\ image = "unset"
    /\ text = NoText
    /\ header_text = NoText
    /\ invoice_date = NoDate
    /\ nif_result = None
    /\ template_result = None
    /\ keyword_result = None
    /\ result = None
    /\ calls = <<>>
    /\ doc = None
    /\ suspended = None
    /\ seen = None
    /\ ncalls = 0
    /\ dry_run = FALSE
    /\ upload = FALSE
    /\ fs = None
    /\ pdf_files = <<>>
    /\ stats = None
    /\ action = ""
    /\ dest_path = <<>>
    /\ uploads = <<>>
    /\ request \in UploadRequests

\* the operation returns r, or raises
Returns(r) ==
    /\ result' = r
    /\ pc' = IF "raised" \in DOMAIN r THEN "raised" ELSE "done"
    /\ calls' = IF r.posted THEN <<"requests.post">> ELSE <<>>
    /\ UNCHANGED <<templates, image, text, header_text, invoice_date, nif_result,
                   template_result, keyword_result, replay_vars, batch_vars>>

\* client.upload_document(file_path, id) with the identifier of the
\* supplier's route
CallUploadDocument ==
    /\ pc = "call"
    /\ request.op = "upload_document"
    /\ Returns(upload_document(request.provider, request.api_key, request.filename,
                               IF request.provider = "parseur" THEN "111943" ELSE "jtVquUzt",
                               request.env))

\* client.upload_for_supplier(file_path, supplier)
CallUploadForSupplier ==
    /\ pc = "call"
    /\ request.op = "upload_for_supplier"
    /\ Returns(upload_for_supplier(request.provider, request.api_key, request.filename,
                                   request.supplier, request.env))

\* upload_to_api(file_path, supplier)
CallUploadToApi ==
    /\ pc = "call"
    /\ request.op = "upload_to_api"
    /\ Returns(upload_to_api(request.filename, request.supplier,
                             [parseur |-> request.api_key, docupipe |-> request.api_key],
                             request.env))

NextUpload ==
    \/ CallUploadDocument
    \/ CallUploadForSupplier
    \/ CallUploadToApi

SpecUpload ==
    InitUpload /\ [][NextUpload]_vars

(***************************************************************************)
(* process_and_move.  A file name is a text; a path is <<directory, name>>.*)
(* fs gives each directory its state ("missing", "dir", or "blocked": the  *)
(* path cannot be made a directory) and its files, a function from the     *)
(* names to the contents; the content of a source document is its original *)
(* name.  The classifier is an input: classify returns one of a few        *)
(* results or raises.                                                      *)
(***************************************************************************)
MaxPdfs ==
    2

\* _has_integration as it would be if the identifiers were not looked at
HasRoute(supplier) ==
    get_route(supplier) # None /\ get_route(supplier).enabled

\* _has_integration(supplier)
_has_integration(supplier) ==
    LET route == get_route(supplier)
    IN  IF route # None /\ route.enabled
        THEN route.mailbox_id \notin {"None", ""} \/ route.workflow_id \notin {"None", ""}
        ELSE FALSE

\* str.capitalize()
Capitalize(t) ==
    [i \in 1 .. Len(t) |->
        IF i = 1 /\ \E k \in 1 .. Len(LowerCase) : LowerCase[k] = t[i]
        THEN UpperCase[CHOOSE k \in 1 .. Len(LowerCase) : LowerCase[k] = t[i]]
        ELSE IF i > 1 THEN Lower(<<t[i]>>)[1]
        ELSE t[i]]

\* the characters of a registry key
Spelling(supplier) ==
    CASE supplier = "novadis" -> <<"n", "o", "v", "a", "d", "i", "s">>
      [] supplier = "galp" -> <<"g", "a", "l", "p">>
      [] supplier = "makro" -> <<"m", "a", "k", "r", "o">>
      [] supplier = "teofilo_gd" -> <<"t", "e", "o", "f", "i", "l", "o", "_", "g", "d">>

\* the duplicate loop as it would be without the test dest_path.exists()
RECURSIVE NextFreeUnchecked(_, _, _, _)
NextFreeUnchecked(files, stem, new_filename, counter) ==
    new_filename

\* counter = 1; while dest_path.exists(): new_filename = f"{stem}_{counter}.pdf";
\* counter += 1.  files are the names that exist in the target directory.
RECURSIVE NextFree(_, _, _, _)
NextFree(files, stem, new_filename, counter) ==
    IF new_filename \notin files THEN new_filename
    ELSE NextFree(files, stem,
                  stem \o <<"_">> \o Decimal(counter) \o <<".", "p", "d", "f">>,
                  counter + 1)

\* what classifier.classify(pdf_path) can return
ClassifyResults ==
    {[supplier |-> "unknown", confidence |-> 0, method |-> "error", invoice_date |-> NoDate],
     [supplier |-> "novadis", confidence |-> NIF_CONFIDENCE, method |-> "nif",
      invoice_date |-> <<"2", "0", "2", "5", "0", "2", "1", "0">>],
     [supplier |-> "novadis", confidence |-> Pct(70), method |-> "keywords", invoice_date |-> NoDate],
     [supplier |-> "galp", confidence |-> Pct(70), method |-> "keywords",
      invoice_date |-> <<"2", "0", "2", "5", "0", "2", "1", "0">>]}

\* current_year = datetime.now().year
current_year ==
    2026

InitBatch ==
    /\ templates = {}
    /\ pc = "called"
    /\ image = "unset"
    /\ text = NoText
    /\ header_text = NoText
    /\ invoice_date = NoDate
    /\ nif_result = None
    /\ template_result = None
    /\ keyword_result = None
    /\ result = None
    /\ calls = <<>>
    /\ doc = None
    /\ suspended = None
    /\ seen = None
    /\ ncalls = 0
    /\ dry_run \in BOOLEAN
    /\ upload \in BOOLEAN
    /\ LET names == {<<"a", ".", "p", "d", "f">>, <<"b", ".", "p", "d", "f">>,
                     <<"B", ".", "P", "D", "F">>}
           old == <<"old">>
           Dir(state, files) == [state |-> state, files |-> files]
           Source(S) == Dir("dir", [n \in S |-> n])
           invoice == <<"2", "0", "2", "5", "0", "2", "1", "0", "_">>
                          \o Capitalize(Spelling("novadis")) \o <<".", "p", "d", "f">>
       IN  \E S \in {T \in SUBSET names : Cardinality(T) <= MaxPdfs} :
              fs \in {[source |-> Source(S), MATCHED |-> Dir("missing", <<>>),
                       REVIEW |-> Dir("missing", <<>>), INTEGRATED |-> Dir("missing", <<>>)],
                      [source |-> Source(S), MATCHED |-> Dir("dir", <<>>),
                       REVIEW |-> Dir("dir", [n \in {<<"a", ".", "p", "d", "f">>} |-> old]),
                       INTEGRATED |-> Dir("dir", [n \in {invoice} |-> old])],
                      [source |-> Source(S), MATCHED |-> Dir("missing", <<>>),
                       REVIEW |-> Dir("dir", <<>>), INTEGRATED |-> Dir("blocked", <<>>)]}
    /\ pdf_files = <<>>
    /\ stats = None
    /\ action = ""
    /\ dest_path = <<>>
    /\ uploads = <<>>
    /\ request = None

\* matched_dir.mkdir(exist_ok=True); review_dir.mkdir(...); integrated_dir.mkdir(...);
\* stats = {...}; pdf_files = list(glob('*.pdf')) + list(glob('*.PDF')).
\* mkdir raises where the path cannot be made a directory.
MakeDirs ==
    /\ pc = "called"
    /\ LET order == <<"MATCHED", "REVIEW", "INTEGRATED">>
           blocked == {i \in 1 .. 3 : fs[order[i]].state = "blocked"}
           stop == IF blocked = {} THEN 4 ELSE SetMin(blocked)
           Suffix(n) == SubSeq(n, Len(n) - 3, Len(n))
           Listings(S) == {l \in [1 .. Cardinality(S) -> S] :
                              \A i, j \in 1 .. Cardinality(S) : i # j => l[i] # l[j]}
       IN  /\ fs' = [d \in DOMAIN fs |->
                        IF fs[d].state = "missing" /\ \E i \in 1 .. (stop - 1) : order[i] = d
                        THEN [state |-> "dir", files |-> <<>>]
                        ELSE fs[d]]
           /\ IF blocked = {}
              THEN /\ stats' = [total |-> 0, integrated |-> 0, matched |-> 0, review |-> 0,
                                errors |-> 0, uploaded |-> 0, upload_failed |-> 0, files |-> <<>>]
                   /\ \E l1 \in Listings({n \in DOMAIN fs.source.files :
                                             Suffix(n) = <<".", "p", "d", "f">>}) :
                      \E l2 \in Listings({n \in DOMAIN fs.source.files :
                                             Suffix(n) = <<".", "P", "D", "F">>}) :
                         pdf_files' = l1 \o l2
                   /\ pc' = "loop"
              ELSE /\ pc' = "raised"
                   /\ UNCHANGED <<stats, pdf_files>>
    /\ UNCHANGED <<templates, image, text, header_text, invoice_date, nif_result,
                   template_result, keyword_result, result, calls, replay_vars,
                   dry_run, upload, action, dest_path, uploads, request>>

\* the routing as it would be if a result with method error were counted in
\* errors
ClassifyAndRouteErrorCounted ==
    /\ pc = "loop"
    /\ stats.total < Len(pdf_files)
    /\ \E r \in ClassifyResults :
          LET name == pdf_files[stats.total + 1]
              known == r.supplier # "unknown"
              date_part == IF r.invoice_date # NoDate THEN r.invoice_date
                           ELSE Decimal(current_year) \o <<"X", "X", "X", "X">>
              has_api == known /\ _has_integration(r.supplier)
              target == IF ~known THEN "REVIEW" ELSE IF has_api THEN "INTEGRATED" ELSE "MATCHED"
              stem == IF known THEN date_part \o <<"_">> \o Capitalize(Spelling(r.supplier))
                      ELSE SubSeq(name, 1, SetMax({i \in 1 .. Len(name) : name[i] = "."}) - 1)
              new_filename == NextFree(DOMAIN fs[target].files, stem,
                                       IF known THEN stem \o <<".", "p", "d", "f">> ELSE name, 1)
          IN  /\ result' = r
              /\ action' = target
              /\ dest_path' = <<target, new_filename>>
              /\ stats' = [stats EXCEPT
                              !.total = @ + 1,
                              !.integrated = IF target = "INTEGRATED" THEN @ + 1 ELSE @,
                              !.matched = IF target = "MATCHED" THEN @ + 1 ELSE @,
                              !.review = IF target = "REVIEW" /\ r.method # "error" THEN @ + 1 ELSE @,
                              !.errors = IF r.method = "error" THEN @ + 1 ELSE @,
                              !.files = Append(@, [original |-> name, new_name |-> new_filename,
                                                   supplier |-> r.supplier,
                                                   confidence |-> r.confidence,
                                                   date |-> r.invoice_date, action |-> target,
                                                   dest |-> <<target, new_filename>>,
                                                   upload |-> None])]
              /\ calls' = Append(calls, <<"classify", name>>)
    /\ pc' = "move"
    /\ UNCHANGED <<templates, image, text, header_text, invoice_date, nif_result,
                   template_result, keyword_result, replay_vars,
                   dry_run, upload, fs, pdf_files, uploads, request>>

\* stats['total'] += 1; result = classifier.classify(pdf_path); the choice of
\* the target directory and of the new file name; stats['files'].append(file_info)
ClassifyAndRoute ==
    /\ pc = "loop"
    /\ stats.total < Len(pdf_files)
    /\ \E r \in ClassifyResults :
          LET name == pdf_files[stats.total + 1]
              known == r.supplier # "unknown"
              date_part == IF r.invoice_date # NoDate THEN r.invoice_date
                           ELSE Decimal(current_year) \o <<"X", "X", "X", "X">>
              has_api == known /\ _has_integration(r.supplier)
              target == IF ~known THEN "REVIEW" ELSE IF has_api THEN "INTEGRATED" ELSE "MATCHED"
              stem == IF known THEN date_part \o <<"_">> \o Capitalize(Spelling(r.supplier))
                      ELSE SubSeq(name, 1, SetMax({i \in 1 .. Len(name) : name[i] = "."}) - 1)
              new_filename == NextFree(DOMAIN fs[target].files, stem,
                                       IF known THEN stem \o <<".", "p", "d", "f">> ELSE name, 1)
          IN  /\ result' = r
              /\ action' = target
              /\ dest_path' = <<target, new_filename>>
              /\ stats' = [stats EXCEPT
                              !.total = @ + 1,
                              !.integrated = IF target = "INTEGRATED" THEN @ + 1 ELSE @,
                              !.matched = IF target = "MATCHED" THEN @ + 1 ELSE @,
                              !.review = IF target = "REVIEW" THEN @ + 1 ELSE @,
                              !.files = Append(@, [original |-> name, new_name |-> new_filename,
                                                   supplier |-> r.supplier,
                                                   confidence |-> r.confidence,
                                                   date |-> r.invoice_date, action |-> target,
                                                   dest |-> <<target, new_filename>>,
                                                   upload |-> None])]
              /\ calls' = Append(calls, <<"classify", name>>)
    /\ pc' = "move"
    /\ UNCHANGED <<templates, image, text, header_text, invoice_date, nif_result,
                   template_result, keyword_result, replay_vars,
                   dry_run, upload, fs, pdf_files, uploads, request>>

\* a raising classify as it would be outside the try block
ClassifyRaisesUncaught ==
    /\ pc = "loop"
    /\ stats.total < Len(pdf_files)
    /\ stats' = [stats EXCEPT !.total = @ + 1]
    /\ calls' = calls \o <<<<"classify", pdf_files[stats.total + 1]>>,
                           <<"raise", pdf_files[stats.total + 1]>>>>
    /\ pc' = "raised"
    /\ UNCHANGED <<templates, image, text, header_text, invoice_date, nif_result,
                   template_result, keyword_result, result, replay_vars,
                   dry_run, upload, fs, pdf_files, action, dest_path, uploads, request>>

\* classifier.classify(pdf_path) raises: except Exception as e
ClassifyRaises ==
    /\ pc = "loop"
    /\ stats.total < Len(pdf_files)
    /\ LET name == pdf_files[stats.total + 1]
       IN  /\ stats' = [stats EXCEPT
                           !.total = @ + 1,
                           !.errors = @ + 1,
                           !.files = Append(@, [original |-> name,
                                                error |-> "tesseract is not installed",
                                                action |-> "ERROR"])]
           /\ calls' = calls \o <<<<"classify", name>>, <<"raise", name>>>>
    /\ pc' = "loop"
    /\ UNCHANGED <<templates, image, text, header_text, invoice_date, nif_result,
                   template_result, keyword_result, result, replay_vars,
                   dry_run, upload, fs, pdf_files, action, dest_path, uploads, request>>

\* if dry_run: logger.info(...)
DryRunLog ==
    /\ pc = "move"
    /\ dry_run
    /\ pc' = "loop"
    /\ UNCHANGED <<templates, image, text, header_text, invoice_date, nif_result,
                   template_result, keyword_result, result, calls, replay_vars, batch_vars>>

\* the move as it would be if the upload did not depend on the action
MoveUploadAnyAction ==
    /\ pc = "move"
    /\ ~dry_run
    /\ LET name == pdf_files[stats.total]
           dir == fs[dest_path[1]].files
       IN  /\ fs' = [fs EXCEPT
                        !.source.files = [n \in DOMAIN @ \ {name} |-> @[n]],
                        ![dest_path[1]].files =
                            [n \in DOMAIN dir \cup {dest_path[2]} |->
                                IF n = dest_path[2] THEN fs.source.files[name] ELSE dir[n]]]
           /\ calls' = Append(calls, <<"shutil.move", name, dest_path>>)
    /\ pc' = IF upload THEN "upload" ELSE "loop"
    /\ UNCHANGED <<templates, image, text, header_text, invoice_date, nif_result,
                   template_result, keyword_result, result, replay_vars,
                   dry_run, upload, pdf_files, stats, action, dest_path, uploads, request>>

\* else: shutil.move(str(pdf_path), str(dest_path)): the document takes the
\* place of whatever is at dest_path
Move ==
    /\ pc = "move"
    /\ ~dry_run
    /\ LET name == pdf_files[stats.total]
           dir == fs[dest_path[1]].files
       IN  /\ fs' = [fs EXCEPT
                        !.source.files = [n \in DOMAIN @ \ {name} |-> @[n]],
                        ![dest_path[1]].files =
                            [n \in DOMAIN dir \cup {dest_path[2]} |->
                                IF n = dest_path[2] THEN fs.source.files[name] ELSE dir[n]]]
           /\ calls' = Append(calls, <<"shutil.move", name, dest_path>>)
    /\ pc' = IF upload /\ action = "INTEGRATED" THEN "upload" ELSE "loop"
    /\ UNCHANGED <<templates, image, text, header_text, invoice_date, nif_result,
                   template_result, keyword_result, result, replay_vars,
                   dry_run, upload, pdf_files, stats, action, dest_path, uploads, request>>

\* shutil.move raises: except Exception as e
MoveRaises ==
    /\ pc = "move"
    /\ ~dry_run
    /\ LET name == pdf_files[stats.total]
       IN  /\ stats' = [stats EXCEPT
                           !.errors = @ + 1,
                           !.files = Append(@, [original |-> name,
                                                error |-> "Permission denied",
                                                action |-> "ERROR"])]
           /\ calls' = calls \o <<<<"shutil.move", name, dest_path>>, <<"raise", name>>>>
    /\ pc' = "loop"
    /\ UNCHANGED <<templates, image, text, header_text, invoice_date, nif_result,
                   template_result, keyword_result, result, replay_vars,
                   dry_run, upload, fs, pdf_files, action, dest_path, uploads, request>>

\* if upload and action == 'INTEGRATED': upload_result = upload_to_api(dest_path,
\* result.supplier); file_info['upload'] = upload_result; the two counters
Upload ==
    /\ pc = "upload"
    /\ \E answer \in {[status_code |-> 202, text |-> "", json |-> None],
                      [class |-> "ReadTimeout", text |-> "Read timed out."]} :
       \E upload_result \in
             {upload_to_api(dest_path[2], result.supplier,
                            [parseur |-> "key", docupipe |-> "key"],
                            [imports |-> None,
                             open |-> IF dest_path[2] \in DOMAIN fs[dest_path[1]].files THEN None
                                      ELSE [class |-> "FileNotFoundError",
                                            text |-> "No such file or directory"],
                             post |-> answer,
                             json |-> [class |-> "ValueError", text |-> "Expecting value"]])} :
          /\ stats' = [stats EXCEPT
                          !.uploaded = IF upload_result.success THEN @ + 1 ELSE @,
                          !.upload_failed = IF upload_result.success THEN @ ELSE @ + 1,
                          !.files[Len(stats.files)].upload = upload_result]
          /\ uploads' = Append(uploads, [path |-> dest_path, supplier |-> result.supplier,
                                         success |-> upload_result.success])
    /\ calls' = Append(calls, <<"upload_to_api", pdf_files[stats.total]>>)
    /\ pc' = "loop"
    /\ UNCHANGED <<templates, image, text, header_text, invoice_date, nif_result,
                   template_result, keyword_result, result, replay_vars,
                   dry_run, upload, fs, pdf_files, action, dest_path, request>>

\* the list is exhausted: return stats
ReturnStats ==
    /\ pc = "loop"
    /\ stats.total = Len(pdf_files)
    /\ pc' = "returned"
    /\ UNCHANGED <<templates, image, text, header_text, invoice_date, nif_result,
                   template_result, keyword_result, result, calls, replay_vars, batch_vars>>

NextBatch ==
    \/ MakeDirs
    \/ ClassifyAndRoute
    \/ ClassifyRaises
    \/ DryRunLog
    \/ Move
    \/ MoveRaises
    \/ Upload
    \/ ReturnStats

SpecBatch ==
    InitBatch /\ [][NextBatch]_vars

\* the steps of process_and_move are the statements of one sequential call:
\* a step that can be taken is taken
FairBatch ==
    SpecBatch /\ WF_vars(NextBatch)

(***************************************************************************)
(* A dry run of process_and_move followed by a real run on the same        *)
(* folders with the same classifier, as the usage text proposes            *)
(* ("--dry-run  Show what would happen without making changes").  seen     *)
(* keeps what the dry run listed and returned; in the second call the      *)
(* folder is listed in the same order and classify answers for each        *)
(* document what it answered in the first.                                 *)
(***************************************************************************)
\* the first call: process_and_move(..., dry_run=True)
InitRehearsal ==
    InitBatch /\ dry_run

\* process_and_move(..., dry_run=False) is called after the dry run returned
CallAgain ==
    /\ pc = "returned"
    /\ dry_run
    /\ seen = None
    /\ seen' = [files |-> stats.files, listing |-> pdf_files]
    /\ dry_run' = FALSE
    /\ pc' = "called"
    /\ result' = None
    /\ pdf_files' = <<>>
    /\ stats' = None
    /\ action' = ""
    /\ dest_path' = <<>>
    /\ UNCHANGED <<templates, image, text, header_text, invoice_date, nif_result,
                   template_result, keyword_result, calls, doc, suspended, ncalls,
                   upload, fs, uploads, request>>

NextRehearsal ==
    \/ MakeDirs /\ (seen # None => pdf_files' = seen.listing)
    \/ /\ ClassifyAndRoute
       /\ seen # None =>
             /\ seen.files[stats'.total].action # "ERROR"
             /\ seen.files[stats'.total].supplier = result'.supplier
             /\ seen.files[stats'.total].confidence = result'.confidence
             /\ seen.files[stats'.total].date = result'.invoice_date
    \/ ClassifyRaises /\ (seen # None => seen.files[stats'.total].action = "ERROR")
    \/ DryRunLog
    \/ Move
    \/ MoveRaises
    \/ Upload
    \/ ReturnStats
    \/ CallAgain

SpecRehearsal ==
    InitRehearsal /\ [][NextRehearsal]_vars
(***************************************************************************)
(* Properties.  The operators below restate what a property speaks of      *)
(* without the loops of the code: plain substring occurrence, the set of   *)
(* scores, the set of dates after a label.                                 *)
(***************************************************************************)
OccursAt(p, t, s) ==
    /\ s + Len(p) - 1 <= Len(t)
    /\ \A j \in 1 .. Len(p) : t[s + j - 1] = p[j]

\* p is a substring of t
Occurs(p, t) ==
    \E s \in {x \in 1 .. Len(t) : t[x] = p[1]} : OccursAt(p, t, s)

\* the pattern re matches somewhere in t
MatchesSomewhere(re, t) ==
    RunRe(re, 1, t, 1 .. (Len(t) + 1)) # {}

Called(name) ==
    \E k \in 1 .. Len(calls) : calls[k] = name

FirstCall(name) ==
    SetMin({k \in 1 .. Len(calls) : calls[k] = name})

\* t holds the tax ID of a registry entry whose tax ID is present and has at
\* least 9 characters
ContainsRegistryNif(t) ==
    \E i \in 1 .. Len(SUPPLIERS) :
        /\ SUPPLIERS[i].nif # <<>>
        /\ Len(SUPPLIERS[i].nif) >= 9
        /\ Occurs(SUPPLIERS[i].nif, t)

\* r carries supplier, confidence, method and details of the sub-result s
SameClassification(r, s) ==
    /\ r.supplier = s.supplier
    /\ r.confidence = s.confidence
    /\ r.method = s.method
    /\ r.details = s.details

\* classify returned after a successful rasterization
Returned ==
    pc = "returned" /\ image = "ok"

\* C1: when the document rasterizes and its full-page OCR text contains the
\* tax ID of a registry entry (present, at least 9 characters), classify
\* returns method nif with confidence exactly 0.95 whatever keywords the text
\* holds, and neither template matching nor keyword matching is run.
C1_NifShortCircuits ==
    (Returned /\ ContainsRegistryNif(text)) =>
        /\ result.method = "nif"
        /\ result.confidence = Pct(95)
        /\ ~Called("classify_by_template")
        /\ ~Called("classify_by_keywords")

\* a tax ID decided the result although the keywords of the text name
\* another supplier
C1_Witness ==
    /\ Returned
    /\ ContainsRegistryNif(text)
    /\ result.method = "nif"
    /\ classify_by_keywords(text) # None
    /\ classify_by_keywords(text).supplier # result.supplier

TEOFILO_NIF ==
    <<"5", "0", "0", "0", "9", "9", "8", "7", "1">>

TEOFILO_NIF_SPACED ==
    <<"5", "0", "0", " ", "0", "9", "9", " ", "8", "7", "1">>

ContainsTeofiloNif(t) ==
    Occurs(TEOFILO_NIF, t) \/ Occurs(TEOFILO_NIF_SPACED, t)

\* some pattern of the special case named `name` matches t
VariantPatternMatches(name, t) ==
    \E j \in 1 .. Len(SPECIAL_CASES[1].cases) :
        /\ SPECIAL_CASES[1].cases[j].name = name
        /\ \E k \in 1 .. Len(SPECIAL_CASES[1].cases[j].keywords) :
              MatchesSomewhere(SPECIAL_CASES[1].cases[j].keywords[k], t)

TeofiloVariant(t) ==
    IF VariantPatternMatches("teofilo_gd", t) THEN "teofilo_gd"
    ELSE IF VariantPatternMatches("teofilo_nc", t) THEN "teofilo_nc"
    ELSE "teofilo"

\* C2: for every text that contains the Teofilo tax ID 500099871, plain or in
\* space-separated groups of three digits, classify_by_nif returns a result
\* (never None) naming teofilo_gd if a return-guide pattern matches the text,
\* otherwise teofilo_nc if a credit-note pattern matches, otherwise teofilo;
\* and in each special-case list the keyword-less entry is the only one and
\* the last.
C2_TeofiloVariants ==
    /\ \A s \in 1 .. Len(SPECIAL_CASES) :
          \A j \in 1 .. Len(SPECIAL_CASES[s].cases) :
              (SPECIAL_CASES[s].cases[j].keywords = <<>>) <=> (j = Len(SPECIAL_CASES[s].cases))
    /\ (pc = "done" /\ ContainsTeofiloNif(text)) =>
          /\ nif_result # None
          /\ nif_result.supplier = TeofiloVariant(text)
          /\ nif_result.method = "nif"

\* the spaced tax ID with both a credit-note and a return-guide phrase: the
\* return guide wins
C2_Witness ==
    /\ pc = "done"
    /\ Occurs(TEOFILO_NIF_SPACED, text)
    /\ VariantPatternMatches("teofilo_gd", text)
    /\ VariantPatternMatches("teofilo_nc", text)
    /\ nif_result # None
    /\ nif_result.supplier = "teofilo_gd"

\* C3: when rasterizing fails, classify returns supplier unknown, confidence
\* 0.0, method error, the failure message in details.error, no invoice date
\* and an empty OCR text, having run neither OCR nor any matching step; and
\* no other path returns method error.
C3_RasterizationFailure ==
    /\ (pc = "returned" /\ image # "ok") =>
          /\ result.supplier = "unknown"
          /\ result.confidence = 0
          /\ result.method = "error"
          /\ result.details = [error |-> image]
          /\ result.invoice_date = NoDate
          /\ result.ocr_text = NoText
          /\ calls = <<"pdf_to_image">>
    /\ (pc = "returned" /\ result.method = "error") => image # "ok"

C3_Witness ==
    /\ pc = "returned"
    /\ image = "Unable to get page count."
    /\ result.method = "error"
    /\ result.details.error = "Unable to get page count."

\* C4: classify never raises to its caller: whatever fails after the
\* rasterization (full-page OCR, header-region OCR, date extraction,
\* similarity), the call ends with a result.
C4_NeverRaises ==
    pc # "raised"

\* C5: when the tax-ID match fails and template and keyword matching both
\* succeed and name the same supplier, classify returns that supplier with
\* method hybrid and confidence max(template, keyword) + 0.1, strictly above
\* both and not clamped at 1.0, with the two details under the keys template
\* and keywords.
C5_HybridFusion ==
    (/\ Returned
     /\ nif_result = None
     /\ template_result # None
     /\ keyword_result # None
     /\ template_result.supplier = keyword_result.supplier) =>
        /\ result.supplier = template_result.supplier
        /\ result.method = "hybrid"
        /\ result.confidence =
              (IF template_result.confidence >= keyword_result.confidence
               THEN template_result.confidence
               ELSE keyword_result.confidence) + Pct(10)
        /\ result.confidence > template_result.confidence
        /\ result.confidence > keyword_result.confidence
        /\ result.details =
              [template |-> template_result.details, keywords |-> keyword_result.details]

\* a hybrid result whose confidence exceeds 1.0
C5_Witness ==
    /\ Returned
    /\ nif_result = None
    /\ result.method = "hybrid"
    /\ template_result.supplier = keyword_result.supplier
    /\ result.confidence > Unit

\* C6: every result classify returns has a confidence between 0.0 and 1.0.
C6_ConfidenceInRange ==
    pc = "returned" => (result.confidence >= 0 /\ result.confidence <= Unit)

\* the first 500 characters of t
FirstCharacters(sample, t) ==
    /\ Len(sample) = (IF Len(t) < 500 THEN Len(t) ELSE 500)
    /\ \A j \in 1 .. Len(sample) : sample[j] = t[j]

\* C7: when the tax-ID match fails and template and keyword results do not
\* agree: with both present and different suppliers the one of higher
\* confidence is returned (the keyword result on a tie); with one present,
\* that one; with none, supplier unknown, method none, confidence 0.0 and
\* details.text_sample = the first 500 characters of the OCR text.  A
\* returned sub-result keeps its supplier, confidence, method and details.
C7_Disagreement ==
    (Returned /\ nif_result = None) =>
        /\ (/\ template_result # None
            /\ keyword_result # None
            /\ template_result.supplier # keyword_result.supplier) =>
              /\ template_result.confidence > keyword_result.confidence =>
                    SameClassification(result, template_result)
              /\ template_result.confidence <= keyword_result.confidence =>
                    SameClassification(result, keyword_result)
        /\ (template_result # None /\ keyword_result = None) =>
              SameClassification(result, template_result)
        /\ (template_result = None /\ keyword_result # None) =>
              SameClassification(result, keyword_result)
        /\ (template_result = None /\ keyword_result = None) =>
              /\ result.supplier = "unknown"
              /\ result.method = "none"
              /\ result.confidence = 0
              /\ DOMAIN result.details = {"text_sample"}
              /\ FirstCharacters(result.details.text_sample, text)

\* template and keywords name different suppliers with equal confidence and
\* the keyword result is returned
C7_Witness ==
    /\ Returned
    /\ nif_result = None
    /\ template_result # None
    /\ keyword_result # None
    /\ template_result.supplier # keyword_result.supplier
    /\ template_result.confidence = keyword_result.confidence
    /\ result.method = "keywords"
    /\ result.supplier = keyword_result.supplier

\* C8: every result with a method other than error carries the full-page OCR
\* text and the date extract_invoice_date finds in it, or else the date it
\* finds in the header-region text; the header-region OCR runs only when the
\* full-page text yields no date, and the date is extracted before the
\* tax-ID match.
C8_DateAndTextAttached ==
    (pc = "returned" /\ result.method # "error") =>
        \E full \in {extract_invoice_date(text)} :
            /\ result.ocr_text = text
            /\ result.invoice_date =
                  (IF full # NoDate THEN full ELSE extract_invoice_date(header_text))
            /\ Called("extract_header_text") <=> (full = NoDate)
            /\ FirstCall("extract_invoice_date") < FirstCall("classify_by_nif")

\* a result by tax ID whose date comes from the header region
C8_Witness ==
    /\ pc = "returned"
    /\ result.method = "nif"
    /\ extract_invoice_date(text) = NoDate
    /\ Called("extract_header_text")
    /\ result.invoice_date # NoDate
    /\ result.invoice_date = extract_invoice_date(header_text)
    /\ result.ocr_text = text

\* the number of keyword patterns of entry i found in t
Found(i, t) ==
    Cardinality({k \in 1 .. Len(SUPPLIERS[i].keywords) :
                    MatchesSomewhere(SUPPLIERS[i].keywords[k], t)})

\* score(entry) for every entry of the registry, in units of 1/Unit
Scores(t) ==
    [i \in 1 .. Len(SUPPLIERS) |->
        (Found(i, t) * Unit) \div Len(SUPPLIERS[i].keywords)]

\* what C9 says of the result r for the scores sc
KeywordContract(sc, r) ==
    \E top \in {SetMax({sc[i] : i \in 1 .. Len(SUPPLIERS)})} :
        IF top < Pct(30)
        THEN r = None
        ELSE /\ r # None
             /\ r.supplier = SUPPLIERS[SetMin({i \in 1 .. Len(SUPPLIERS) : sc[i] = top})].name
             /\ r.confidence = (IF Pct(50) + (40 * top) \div 100 < Pct(90)
                                THEN Pct(50) + (40 * top) \div 100
                                ELSE Pct(90))

ScoredBest(score) ==
    [match |-> "novadis", score |-> score, matches |-> <<>>]

\* C9: classify_by_keywords returns None unless the maximal score over the
\* registry is at least 0.30; otherwise the first entry in registry order
\* that attains the maximal score, with confidence min(0.9, 0.5 + 0.4*score):
\* a score of 30% gives 0.62, a score of 29% is rejected, a score of 100%
\* gives 0.9.
C9_KeywordScoring ==
    /\ KeywordResult(ScoredBest(Pct(30))) # None
    /\ KeywordResult(ScoredBest(Pct(30))).confidence = Pct(62)
    /\ KeywordResult(ScoredBest(Pct(29))) = None
    /\ KeywordResult(ScoredBest(Unit)).confidence = Pct(90)
    /\ pc = "done" => \E sc \in {Scores(text)} : KeywordContract(sc, keyword_result)

\* two entries attain the maximal score and the first of them is returned
C9_Witness ==
    /\ pc = "done"
    /\ keyword_result # None
    /\ \E sc \in {Scores(text)} :
          /\ Cardinality({i \in 1 .. Len(SUPPLIERS) : sc[i] = keyword_result.details.score}) > 1
          /\ \A i \in 1 .. Len(SUPPLIERS) : sc[i] <= keyword_result.details.score

\* the issue-date labels, as they are written
ISSUE_DATE_LABELS ==
    {<<"d", "a", "t", "a", " ", "d", "e", " ", "e", "m", "i", "s", "s", "a~", "o">>,
     <<"d", "a", "t", "a", " ", "d", "o", " ", "d", "o", "c", "u", "m", "e", "n", "t", "o">>,
     <<"d", "a", "t", "a", " ", "d", "a", " ", "f", "a", "t", "u", "r", "a">>,
     <<"e", "m", "i", "t", "i", "d", "o", " ", "e", "m">>,
     <<"e", "m", "i", "t", "i", "d", "o", " ", "a">>}

\* the valid dates written in area, in YYYYMMDD
ValidDatesIn(area) ==
    UNION {{_normalize_date(ms[j], date_patterns[g].format) : j \in 1 .. Len(ms)} :
           <<g, ms>> \in {<<h, DateFindIter(h, area)>> : h \in 1 .. Len(date_patterns)}} \ {NoDate}

\* the valid dates that lie within the 30 characters after a label of t
LabelledDates(t) ==
    UNION {ValidDatesIn(SubSeq(t, s + Len(label), Min(s + Len(label) + 29, Len(t)))) :
           <<label, s>> \in {<<l, x>> \in ISSUE_DATE_LABELS \X (1 .. Len(t)) : OccursAt(l, t, x)}}

\* C10: if the text holds an issue-date label (data de emissao, data do
\* documento, data da fatura, emitido em/a) followed within 30 characters by
\* a valid date, extract_invoice_date returns that date, whatever other dates
\* the text holds.
C10_LabelledDateWins ==
    pc = "done" =>
        \E labelled \in {LabelledDates(Lower(text))} :
            labelled # {} => invoice_date \in labelled

\* d1 <= d2 for two YYYYMMDD strings
NotAfter(d1, d2) ==
    ToInt(d1) <= ToInt(d2)

\* some avoid keyword is written in the 50 characters before position s
DueKeywordBefore(t, s) ==
    \E kw \in {<<"v", "e", "n", "c", "i", "m", "e", "n", "t", "o">>,
               <<"p", "a", "g", "a", "m", "e", "n", "t", "o">>,
               <<"p", "r", "a", "z", "o">>} :
        \E x \in {y \in 1 .. Len(t) : y >= s - 50 /\ y + Len(kw) <= s} : OccursAt(kw, t, x)

\* the grammar matches of t, each with the date it normalizes to and whether
\* a due-date keyword precedes it
GrammarMatches(t) ==
    UNION {{[date |-> _normalize_date(ms[j], date_patterns[g].format),
             due |-> DueKeywordBefore(t, ms[j].start)] : j \in 1 .. Len(ms)} :
           <<g, ms>> \in {<<h, DateFindIter(h, t)>> : h \in 1 .. Len(date_patterns)}}

\* the candidate set of the earliest-date pass
Candidates(matches) ==
    {m.date : m \in {x \in matches : x.date # NoDate /\ ~x.due}}

\* C11: when the priority-keyword pass yields no date, extract_invoice_date
\* returns the smallest YYYYMMDD string among the grammar matches of the whole
\* text that normalize to a valid date and have none of vencimento, pagamento,
\* prazo in their 50 preceding characters; a date preceded by such a keyword
\* is not returned while another candidate survives.
C11_EarliestCandidate ==
    pc = "done" =>
        \E t \in {Lower(text)} :
            PriorityPass(1, t) = NoDate =>
                \E candidates \in {Candidates(GrammarMatches(t))} :
                    candidates # {} =>
                        /\ invoice_date \in candidates
                        /\ \A d \in candidates : NotAfter(invoice_date, d)

\* a due date earlier than the date returned stands in the text
C11_Witness ==
    /\ pc = "done"
    /\ invoice_date # NoDate
    /\ \E t \in {Lower(text)} :
          /\ PriorityPass(1, t) = NoDate
          /\ \E matches \in {GrammarMatches(t)} :
                /\ invoice_date \in Candidates(matches)
                /\ \E m \in matches :
                      /\ m.due
                      /\ m.date # NoDate
                      /\ m.date \notin Candidates(matches)
                      /\ ToInt(m.date) < ToInt(invoice_date)

\* the days-in-month table, February with 29 days
MonthLength(month) ==
    CASE month \in {1, 3, 5, 7, 8, 10, 12} -> 31
      [] month \in {4, 6, 9, 11} -> 30
      [] OTHER -> 29

\* d is a zero-padded YYYYMMDD string that passes the validity gate
WellFormedDate(d) ==
    /\ Len(d) = 8
    /\ \A k \in 1 .. 8 : d[k] \in {"0", "1", "2", "3", "4", "5", "6", "7", "8", "9"}
    /\ ToInt(SubSeq(d, 1, 4)) \in 2020 .. 2030
    /\ ToInt(SubSeq(d, 5, 6)) \in 1 .. 12
    /\ ToInt(SubSeq(d, 7, 8)) \in 1 .. MonthLength(ToInt(SubSeq(d, 5, 6)))

\* C12: every non-null value extract_invoice_date returns, from any of its
\* passes, is an 8-character zero-padded YYYYMMDD string with year 2020..2030,
\* month 1..12 and day between 1 and the days-in-month entry (February 29);
\* a candidate that fails the gate is dropped without an error.
C12_DatesWellFormed ==
    (pc = "done" /\ invoice_date # NoDate) => WellFormedDate(invoice_date)

\* every date written in the text fails the gate (day 31 in April) and
\* nothing is returned
C12_Witness ==
    /\ pc = "done"
    /\ Occurs(<<"3", "1", "/", "0", "4", "/", "2", "0", "2", "5">>, text)
    /\ \E matches \in {GrammarMatches(Lower(text))} :
          /\ matches # {}
          /\ \A m \in matches : m.date = NoDate
    /\ invoice_date = NoDate

\* the placeholder tax ID that stands for "no reliable ID"
PLACEHOLDER_NIF ==
    <<"0", "0", "0", "0", "0", "0", "0", "0", "0">>

\* the registry entries whose tax ID is empty or the placeholder
PlaceholderSuppliers ==
    {SUPPLIERS[i].name : i \in {j \in 1 .. Len(SUPPLIERS) :
                                   SUPPLIERS[j].nif \in {<<>>, PLACEHOLDER_NIF}}}

\* C18: classify_by_nif never returns, for any text, a registry entry whose
\* tax ID is empty or the placeholder 000000000 (adegamonte, padoca, kiabi).
C18_NoPlaceholderMatch ==
    (pc = "done" /\ nif_result # None) =>
        /\ nif_result.supplier \notin PlaceholderSuppliers
        /\ nif_result.details.matched_nif \notin {<<>>, PLACEHOLDER_NIF}

\* C13: classify keeps no state between calls: no step changes the loaded
\* template set, and a call that returns for a document some earlier call has
\* returned for returns the same result, whatever calls on other documents
\* ran before it or are in progress.
C13_NoStateBetweenCalls ==
    [][/\ templates' = templates
       /\ (pc' = "returned" /\ seen'[doc'] # None) => result' = seen'[doc']]_vars

C13_Witness ==
    /\ pc = "returned"
    /\ seen[doc] # None
    /\ result = seen[doc]
    /\ result.method = "hybrid"
    /\ suspended.pc = "keywords"
    /\ suspended.doc # doc

\* the client whose upload_document the call of the request reaches, or "None"
ClientReached ==
    LET route == get_route(request.supplier)
    IN  IF request.op = "upload_document" THEN request.provider
        ELSE IF route = None THEN "None"
        ELSE IF request.op = "upload_for_supplier"
        THEN IF route.provider = request.provider
                /\ (request.provider = "parseur" => route.mailbox_id # "None")
             THEN request.provider ELSE "None"
        ELSE IF request.env.imports = None THEN route.provider ELSE "None"

\* C17: the upload operations never raise: every call returns a success flag
\* and a message; success is reported only for a request that was sent and
\* answered 200, 201 or 202; a missing API key, a timeout, an HTTP error
\* status and a transport error are reported with success = false and their
\* own message.
C17_UploadsNeverRaise ==
    /\ pc # "raised"
    /\ pc = "done" /\ request # None =>
          /\ result.success \in BOOLEAN
          /\ result.message # <<>>
          /\ result.success =>
                /\ calls = <<"requests.post">>
                /\ "status_code" \in DOMAIN request.env.post
                /\ request.env.post.status_code \in {200, 201, 202}
          /\ (ClientReached # "None" /\ request.api_key = "") =>
                /\ ~result.success
                /\ result.message = <<IF ClientReached = "parseur"
                                      THEN "Parseur API key not configured"
                                      ELSE "Docupipe API key not configured">>
          /\ (calls # <<>> /\ "class" \in DOMAIN request.env.post) =>
                /\ ~result.success
                /\ result.message = IF request.env.post.class = "ReadTimeout"
                                    THEN <<"Request timed out">>
                                    ELSE <<"Request failed: ", request.env.post.text>>
          /\ (calls # <<>> /\ "status_code" \in DOMAIN request.env.post
                /\ request.env.post.status_code \notin {200, 201, 202}) =>
                /\ ~result.success
                /\ result.message = <<"HTTP ", request.env.post.status_code, ": ",
                                      request.env.post.text>>

C17_Witness ==
    /\ pc = "done"
    /\ request # None
    /\ request.op = "upload_to_api"
    /\ request.supplier = "makro"
    /\ calls = <<"requests.post">>
    /\ "class" \in DOMAIN request.env.post
    /\ request.env.post.class = "ReadTimeout"
    /\ ~result.success
    /\ result.message = <<"Request timed out">>

\* the name f"{stem}_{counter}.pdf"
Numbered(stem, counter) ==
    stem \o <<"_">> \o Decimal(counter) \o <<".", "p", "d", "f">>

\* the stem of the name the claims give the document being processed: the
\* original stem for an unknown supplier, else <date>_<Supplier>
ClaimedStem ==
    LET name == pdf_files[stats.total]
        date == IF result.invoice_date # NoDate THEN result.invoice_date
                ELSE Decimal(current_year) \o <<"X", "X", "X", "X">>
        letters == Spelling(result.supplier)
        Supplier == [letters EXCEPT
                        ![1] = UpperCase[CHOOSE k \in 1 .. Len(LowerCase) : LowerCase[k] = letters[1]]]
    IN  IF result.supplier = "unknown" THEN SubSeq(name, 1, Len(name) - 4)
        ELSE date \o <<"_">> \o Supplier

\* the name when there is no collision
ClaimedName ==
    IF result.supplier = "unknown" THEN pdf_files[stats.total]
    ELSE ClaimedStem \o <<".", "p", "d", "f">>

\* C14: a classified document is routed to exactly one of REVIEW, INTEGRATED
\* and MATCHED: REVIEW, under its original name, when the supplier is unknown;
\* INTEGRATED when the supplier's route exists, is enabled and has a mailbox
\* or workflow identifier; MATCHED for any other known supplier.  A known
\* supplier's file is named <date>_<Supplier>.pdf, <date> being the invoice
\* date or <currentYear>XXXX; when that name is taken the numbered name of
\* C15 is used.
C14_Routing ==
    pc = "move" =>
        LET route == get_route(result.supplier)
            taken == DOMAIN fs[action].files
        IN  /\ action \in {"REVIEW", "INTEGRATED", "MATCHED"}
            /\ dest_path[1] = action
            /\ stats.files[Len(stats.files)].action = action
            /\ stats.files[Len(stats.files)].original = pdf_files[stats.total]
            /\ action = IF result.supplier = "unknown" THEN "REVIEW"
                        ELSE IF /\ route # None
                                /\ route.enabled
                                /\ (route.mailbox_id # "None" \/ route.workflow_id # "None")
                        THEN "INTEGRATED"
                        ELSE "MATCHED"
            /\ IF ClaimedName \notin taken THEN dest_path[2] = ClaimedName
               ELSE \E k \in 1 .. Cardinality(taken) : dest_path[2] = Numbered(ClaimedStem, k)

C14_Witness ==
    /\ pc = "move"
    /\ result.supplier = "novadis"
    /\ result.invoice_date = NoDate
    /\ action = "INTEGRATED"
    /\ dest_path = <<"INTEGRATED", <<"2", "0", "2", "6", "X", "X", "X", "X", "_",
                                     "N", "o", "v", "a", "d", "i", "s", ".", "p", "d", "f">>>>
    /\ \E i \in 1 .. Len(stats.files) :
          /\ stats.files[i].action = "MATCHED"
          /\ stats.files[i].new_name = <<"2", "0", "2", "5", "0", "2", "1", "0", "_",
                                         "G", "a", "l", "p", ".", "p", "d", "f">>

\* C15: in a real run a document is never moved onto an existing path: the
\* destination chosen for it is the first name, among base.pdf, base_1.pdf,
\* base_2.pdf, ..., that does not exist in the target folder, and no step
\* removes or replaces a file of a target folder, so that no two documents
\* share a destination and no file that was there before is overwritten.
C15_NoOverwrite ==
    [][~dry_run =>
         /\ \A d \in {"INTEGRATED", "MATCHED", "REVIEW"} :
               \A n \in DOMAIN fs[d].files :
                  /\ n \in DOMAIN fs'[d].files
                  /\ fs'[d].files[n] = fs[d].files[n]
         /\ pc' = "move" =>
               LET taken == DOMAIN fs'[action'].files
                   new_name == dest_path'[2]
               IN  /\ new_name \notin taken
                   /\ \/ new_name = ClaimedName'
                      \/ /\ ClaimedName' \in taken
                         /\ \E k \in 1 .. Cardinality(taken) :
                               /\ new_name = Numbered(ClaimedStem', k)
                               /\ \A j \in 1 .. (k - 1) : Numbered(ClaimedStem', j) \in taken]_vars

C15_Witness ==
    /\ ~dry_run
    /\ pc = "returned"
    /\ Cardinality(DOMAIN fs.INTEGRATED.files) = 3
    /\ \E n \in DOMAIN fs.INTEGRATED.files : fs.INTEGRATED.files[n] = <<"old">>
    /\ \E n \in DOMAIN fs.INTEGRATED.files :
          /\ fs.INTEGRATED.files[n] = <<"b", ".", "p", "d", "f">>
          /\ SubSeq(n, Len(n) - 5, Len(n)) = <<"_", "2", ".", "p", "d", "f">>

\* the events of the call log that are calls of classify
ClassifyCalls ==
    SelectSeq(calls, LAMBDA c : c[1] = "classify")

C19_DryRunChangesNothing ==
    [][dry_run => (fs' = fs /\ uploads' = uploads)]_vars

\* C20: an upload is attempted only with the upload flag set, outside a dry
\* run, for a document routed to INTEGRATED whose file is at its destination
\* (moved there from the source folder) when upload_to_api is called; at
\* every point uploaded + upload_failed <= integrated, and every upload is
\* that of a path of INTEGRATED.
C20_UploadOnlyIntegrated ==
    [][/\ uploads' # uploads =>
             /\ upload
             /\ ~dry_run
             /\ action = "INTEGRATED"
             /\ stats.files[Len(stats.files)].action = "INTEGRATED"
             /\ uploads' = Append(uploads, uploads'[Len(uploads')])
             /\ uploads'[Len(uploads')].path = dest_path
             /\ dest_path[1] = "INTEGRATED"
             /\ dest_path[2] \in DOMAIN fs.INTEGRATED.files
             /\ fs.INTEGRATED.files[dest_path[2]] = pdf_files[stats.total]
             /\ pdf_files[stats.total] \notin DOMAIN fs.source.files
             /\ calls[Len(calls)] = <<"shutil.move", pdf_files[stats.total], dest_path>>
       /\ stats' # None =>
             /\ stats'.uploaded + stats'.upload_failed <= stats'.integrated
             /\ stats'.uploaded + stats'.upload_failed = Len(uploads')
       /\ \A i \in 1 .. Len(uploads') : uploads'[i].path[1] = "INTEGRATED"]_vars

C20_Witness ==
    /\ pc = "returned"
    /\ upload
    /\ stats.integrated = 2
    /\ stats.uploaded = 1
    /\ stats.upload_failed = 0
    /\ stats.errors = 1
    /\ Len(uploads) = 1

C21_WitnessOther ==
    /\ pc = "done"
    /\ request.op = "upload_for_supplier"
    /\ get_route(request.supplier) # None
    /\ \/ /\ request.api_key = "key"
          /\ get_route(request.supplier).provider # request.provider
       \/ /\ request.api_key = ""
          /\ get_route(request.supplier).provider = request.provider
    /\ ~result.success
    /\ calls = <<>>

\* the date the slash, dash and dot grammars are said to give for the numbers
\* first and second and the year: the day and month assignment, then the
\* validity gate
ClaimedDate(format, first, second, year) ==
    LET dm == IF format = "dmy" THEN <<first, second>>
              ELSE IF first > 12 /\ second <= 12 THEN <<first, second>>
              ELSE IF second > 12 /\ first <= 12 THEN <<second, first>>
              ELSE IF first <= 12 /\ second <= 12 THEN <<first, second>>
              ELSE <<0, 0>>
        d == Fmt(year, 4) \o Fmt(dm[2], 2) \o Fmt(dm[1], 2)
    IN  IF WellFormedDate(d) THEN d ELSE NoDate

\* the matches of the slash, dash and dot grammars in t, each with its format
DayMonthMatches(t) ==
    UNION {{[format |-> date_patterns[g].format, match |-> ms[j]] : j \in 1 .. Len(ms)} :
           <<g, ms>> \in {<<h, DateFindIter(h, t)>> : h \in 4 .. 6}}

\* C22: for the slash grammar D/M/YYYY, first > 12 and second <= 12 gives
\* day = first; second > 12 and first <= 12 gives day = second; both <= 12
\* gives day = first; both > 12 gives no date.  The dash and dot grammars
\* D-M-YYYY and D.M.YYYY are always read day-first.  A text without label
\* whose only date is written in one of these grammars gets that date.
C22_DayMonthAssignment ==
    pc = "done" =>
        \E t \in {Lower(text)} :
            \E found \in {DayMonthMatches(t)} :
                /\ \A x \in found :
                      _normalize_date(x.match, x.format)
                          = ClaimedDate(x.format, ToInt(x.match.groups[1]),
                                        ToInt(x.match.groups[2]), ToInt(x.match.groups[3]))
                /\ (Cardinality(GrammarMatches(t)) = 1 /\ PriorityPass(1, t) = NoDate) =>
                      \A x \in found :
                          invoice_date = ClaimedDate(x.format, ToInt(x.match.groups[1]),
                                                     ToInt(x.match.groups[2]),
                                                     ToInt(x.match.groups[3]))

\* 2/16/2025 is read month-first and returned, 2-16-2025 gives no date
C22_Witness ==
    /\ pc = "done"
    /\ text = <<"2", "/", "1", "6", "/", "2", "0", "2", "5", " ",
                "2", "-", "1", "6", "-", "2", "0", "2", "5", " ">>
    /\ invoice_date = <<"2", "0", "2", "5", "0", "2", "1", "6">>

\* the date the first of the six grammars, in list order, whose first match in
\* the area is valid gives, or NoDate
FirstValidGrammar(area) ==
    CHOOSE d \in {IF {p \in dates : p[2] # NoDate} = {} THEN NoDate
                  ELSE (CHOOSE p \in dates :
                            /\ p[2] # NoDate
                            /\ \A o \in dates : o[2] # NoDate => p[1] <= o[1])[2] :
                  dates \in {{<<g, CHOOSE n \in {IF m = None THEN NoDate
                                                ELSE _normalize_date(m, date_patterns[g].format) :
                                                m \in {DateSearch(g, area)}} : TRUE>> :
                               g \in 1 .. Len(date_patterns)}}} : TRUE

\* the date of the 30 characters after the first occurrence of each label, as
\* pairs <<position of the label in the list, date>>; end is LabelEnd
WindowDates(t) ==
    {<<k, CHOOSE d \in {IF end = 0 THEN NoDate ELSE FirstValidGrammar(SearchArea(t, end)) :
                        end \in {LabelEnd(priority_keywords[k], t)}} : TRUE>> :
     k \in 1 .. Len(priority_keywords)}

\* the date of the earliest-listed label with a date among the pairs, or NoDate
EarliestListed(dates) ==
    IF {p \in dates : p[2] # NoDate} = {} THEN NoDate
    ELSE (CHOOSE p \in dates : /\ p[2] # NoDate
                               /\ \A o \in dates : o[2] # NoDate => p[1] <= o[1])[2]

\* C23: in the priority-keyword pass the labels are tried in list order
\* (emissao, documento, fatura, emitido), only the first occurrence of a label
\* is used, in its 30-character window the first grammar in list order whose
\* first match is valid wins, and a label whose window gives no valid date
\* passes to the next label: the date returned is that of the earliest-listed
\* label whose window gives a valid date, wherever the labels stand in the
\* text; when no first occurrence gives one, later occurrences of the labels
\* play no part and the earliest-date pass decides.
C23_LabelOrder ==
    pc = "done" =>
        \E t \in {Lower(text)} :
            \E first \in {EarliestListed(WindowDates(t))} :
                IF first # NoDate THEN invoice_date = first
                ELSE \E candidates \in {Candidates(GrammarMatches(t))} :
                         candidates # {} =>
                             /\ invoice_date \in candidates
                             /\ \A d \in candidates : NotAfter(invoice_date, d)

\* "emitido em" stands first in the text with a valid date of its own, and the
\* date after "data de emissao" is returned
C23_Witness ==
    /\ pc = "done"
    /\ \E t \in {Lower(text)} :
          \E dates \in {WindowDates(t)} :
              /\ \E p, o \in dates : /\ p[1] = 1 /\ o[1] = 4
                                      /\ p[2] # NoDate /\ o[2] # NoDate /\ p[2] # o[2]
                                      /\ invoice_date = p[2]
              /\ LabelEnd(priority_keywords[4], t) < LabelEnd(priority_keywords[1], t)

\* C24: extract_invoice_date returns no date only if the text has no grammar
\* match that normalizes to a valid date; in particular, when every valid date
\* of the text is preceded by an avoid keyword, the last pass still returns
\* one of them.
C24_NoDateOnlyWithoutValidDate ==
    (pc = "done" /\ invoice_date = NoDate) =>
        \A m \in GrammarMatches(Lower(text)) : m.date = NoDate

\* C25: every date extract_invoice_date returns is the normalization of a
\* complete grammar match of the full lowercased text: the 30-character window
\* of the priority-keyword pass never gives a date from a date string whose
\* digits were cut off at the window edge.
C25_CompleteMatchesOnly ==
    (pc = "done" /\ invoice_date # NoDate) =>
        \E t \in {Lower(text)} :
            \E g \in 1 .. Len(date_patterns) :
                \E s \in MatchStarts(g, t) :
                    _normalize_date(PatternAt(g, t, s), date_patterns[g].format) = invoice_date

\* C26: when process_and_move returns, total = integrated + matched + review
\* + errors and stats.files holds exactly one entry per PDF processed, for any
\* combination of classification results and move or upload failures.
C26_CountersAddUp ==
    pc = "returned" =>
        /\ stats.total = stats.integrated + stats.matched + stats.review + stats.errors
        /\ Len(stats.files) = stats.total
        /\ \A i \in 1 .. Len(pdf_files) :
              Cardinality({j \in 1 .. Len(stats.files) : stats.files[j].original = pdf_files[i]}) = 1

\* C27: a document whose classification result has method error is counted in
\* review and not in errors, is routed to REVIEW under its original name (the
\* numbered name of C15 when that name is taken) and is moved there; errors
\* grows, by one, only in a step in which an exception raised while a document
\* is processed is caught.
C27_ErrorResultGoesToReview ==
    [][/\ (pc = "loop" /\ pc' = "move" /\ result'.method = "error") =>
             /\ stats'.review = stats.review + 1
             /\ stats'.errors = stats.errors
             /\ action' = "REVIEW"
             /\ stats'.files[Len(stats'.files)].action = "REVIEW"
             /\ dest_path'[1] = "REVIEW"
             /\ IF pdf_files[stats'.total] \notin DOMAIN fs.REVIEW.files
                THEN dest_path'[2] = pdf_files[stats'.total]
                ELSE \E k \in 1 .. Cardinality(DOMAIN fs.REVIEW.files) :
                         dest_path'[2] = Numbered(ClaimedStem', k)
       /\ (pc = "move" /\ result.method = "error" /\ fs' # fs) =>
             /\ pdf_files[stats.total] \notin DOMAIN fs'.source.files
             /\ dest_path[2] \in DOMAIN fs'.REVIEW.files
             /\ fs'.REVIEW.files[dest_path[2]] = pdf_files[stats.total]
       /\ (pc \in {"loop", "move", "upload"} /\ stats'.errors # stats.errors) =>
             /\ stats'.errors = stats.errors + 1
             /\ calls'[Len(calls')] = <<"raise", pdf_files[stats'.total]>>
             /\ stats'.files[Len(stats'.files)].action = "ERROR"]_vars

\* a document with method error has been moved to REVIEW, and the classifier
\* raised on the other document
C27_Witness ==
    /\ pc = "returned"
    /\ ~dry_run
    /\ stats.total = 2
    /\ stats.review = 1
    /\ stats.errors = 1
    /\ \E i \in 1 .. Len(stats.files) :
          /\ stats.files[i].action = "REVIEW"
          /\ stats.files[i].confidence = 0
          /\ stats.files[i].new_name = stats.files[i].original
          /\ stats.files[i].original \in DOMAIN fs.REVIEW.files
    /\ \E i \in 1 .. Len(calls) : calls[i][1] = "raise"

\* C28: a dry run shows what a real run would do: for the same source folder,
\* target folders and classification results, the action and the new file
\* name the dry run reports for a document are the action and the destination
\* name the real run gives that document.
C28_DryRunShowsRealRun ==
    (pc = "returned" /\ seen # None) =>
        \A i \in 1 .. Len(seen.files) :
            \A j \in 1 .. Len(stats.files) :
                (/\ seen.files[i].action # "ERROR"
                 /\ stats.files[j].action # "ERROR"
                 /\ stats.files[j].original = seen.files[i].original) =>
                    /\ stats.files[j].action = seen.files[i].action
                    /\ stats.files[j].new_name = seen.files[i].new_name

C29_WitnessUnknown ==
    /\ Returned
    /\ result.method = "none"
    /\ result.supplier = "unknown"
    /\ result.confidence = 0
    /\ text # NoText

\* C30: for both clients, upload_document returns success = true if and only
\* if an HTTP request was sent and the response status is 200, 201 or 202:
\* whenever the provider answers with one of these statuses the upload is
\* reported as successful, whatever the response body contains.
C30_SuccessIffAccepted ==
    (pc \in {"done", "raised"} /\ request.op = "upload_document") =>
        /\ pc = "done"
        /\ result.success <=> /\ calls = <<"requests.post">>
                              /\ "status_code" \in DOMAIN request.env.post
                              /\ request.env.post.status_code \in {200, 201, 202}

====
